---- MODULE Spec2Model ----
(***************************************************************************)
(* Model of the clinic-site scoring service: the site classifier           *)
(* (classifySite), the coverage scoring engine (calculateScore) and the    *)
(* streaming orchestrator (POST /api/analyze).                              *)
(*                                                                         *)
(* Strings are modelled by what the code reads of them: the words that    *)
(* occur in them (String.prototype.includes / RegExp.test become a search  *)
(* for a word that contains the needle), their length in characters, and   *)
(* the run of collapsible white space that normalizeText removes.          *)
(* Scores are kept in tenths of a point (basePoints * 0.7 = 7 tenths per   *)
(* point), so that every comparison and rounding is done on integers.      *)
(***************************************************************************)
EXTENDS Integers, Sequences, FiniteSets, TLC

VARIABLES
    pages,              \* PageData[]: the crawled pages, in crawl order
    input,              \* the request body: hospitalName, keywords, locale
    returned,           \* <<>> or <<r>>: r is what calculateScore returned
    classified,         \* <<>> or <<c>>: c is what classifySite returned
    pc,                 \* position of the POST handler
    scoreResult,        \* the handler's local scoreResult: <<>> or <<r>>
    aiCalls,            \* the calls of generateAIReport made, with the score passed
    events,             \* the events enqueued on the response stream
    fnArgs,             \* the arguments of a helper function applied on its own
    fnResult            \* <<>> or <<v>>: v is what that function returned

vars == <<pages, input, returned, classified, pc, scoreResult, aiCalls, events, fnArgs, fnResult>>

----------------------------------------------------------------------------
(* Bounds of the model.                                                    *)

\* Longest page list explored (the crawler is asked for at most CrawlLimit).
MaxPages == 3

\* The longest page list handed to classifySite on its own.
MaxSitePages == 5

\* crawlSite(url, 10): the page cap the orchestrator passes to the crawler.
CrawlLimit == 10

----------------------------------------------------------------------------
(* Strings.                                                                *)

\* A string: the words in it, the words within its first 320 normalized
\* characters, its count of characters that survive normalizeText, and its
\* count of white-space characters that normalizeText removes.
Text(words, top, chars, ws) == [words |-> words, top |-> top, chars |-> chars, ws |-> ws]

\* A string of under 320 characters: all of its words are within the first 320.
Short(words, chars, ws) == Text(words, words, chars, ws)

EmptyText == Short({}, 0, 0)

\* text.length
Length(t) == t.chars + t.ws

\* String.prototype.toLowerCase on a word: only ASCII letters have case.
toLowerCase(w) ==
    CASE w = "FAQ" -> "faq"
      [] w = "IR" -> "ir"
      [] w = "FAQPage" -> "faqpage"
      [] w = "MedicalClinic" -> "medicalclinic"
      [] w = "MedicalOrganization" -> "medicalorganization"
      [] w = "Hospital" -> "hospital"
      [] w = "Physician" -> "physician"
      [] w = "Dentist" -> "dentist"
      [] w = "MedicalBusiness" -> "medicalbusiness"
      [] w = "LocalBusiness" -> "localbusiness"
      [] w = "Organization" -> "organization"
      [] w = "Product" -> "product"
      [] w = "/Sitemap.xml" -> "/sitemap.xml"
      [] OTHER -> w

\* Words are written in romanized form (the lexer takes ASCII strings only);
\* the source's literal is given beside each vocabulary table below.
\* The proper substrings among the words of the model: <<w, s>> when s occurs
\* inside the longer word w.
ProperSubstrings ==
    { <<"miso-uiwon", "uiwon">>,              \* 미소의원 contains 의원
      <<"juuisahang", "juui">>,               \* 주의사항 contains 주의
      <<"juuisahang", "uisa">>,               \* 주의사항 contains 의사
      <<"jeonmunui", "munui">>,               \* 전문의 contains 문의
      <<"jillyosigan", "jillyo">>,            \* 진료시간 contains 진료
      <<"sahugwalli", "gwalli">>,             \* 사후관리 contains 관리
      <<"/impeullanteu", "impeullanteu">>,    \* a URL path naming the keyword
      <<"/sitemap.xml", "sitemap">>,
      <<"faqpage", "faq">>,
      <<"FAQPage", "FAQ">>,
      <<"/faq", "faq">>,
      <<"medicalorganization", "organization">>,
      <<"MedicalOrganization", "Organization">>,
      <<"sumairu-shika-kurinikku", "kurinikku">>,     \* スマイル歯科クリニック
      <<"sumairu-shika-kurinikku", "sumairu-shika">>,
      <<"/inpuranto", "inpuranto">>,
      <<"chuuijikou", "chuui">>,              \* 注意事項 contains 注意
      <<"shinryoujikan", "shinryou">>,        \* 診療時間 contains 診療
      <<"yokuarushitsumon", "shitsumon">> }   \* よくある質問 contains 質問

\* w.includes(needle), case-sensitive
Includes(w, needle) == needle = "" \/ w = needle \/ <<w, needle>> \in ProperSubstrings

\* text.includes(needle) for a text given by its words
IncludesWord(words, needle) == needle = "" \/ \E w \in words : Includes(w, needle)

\* text.toLowerCase().includes(needle.toLowerCase())
IncludesLower(words, needle) ==
    \E w \in words : Includes(toLowerCase(w), toLowerCase(needle))

\* normalizeText: collapse white space and trim.
normalizeText(t) == [t EXCEPT !.ws = 0]

\* containsAny(text, needles), on the words of the text
containsAny(words, needles) == \E n \in needles : IncludesLower(words, n)

\* k.trim() on a keyword of the request
trim(k) ==
    CASE k = " impeullanteu" -> "impeullanteu"
      [] k = " " -> ""
      [] OTHER -> k

\* arr.join(' ') on a list of headings, as the words of the joined string
RECURSIVE JoinWords(_)
JoinWords(hs) == IF hs = <<>> THEN {} ELSE Head(hs) \cup JoinWords(Tail(hs))

----------------------------------------------------------------------------
(* Vocabulary tables of the two locales, in the order of the source.       *)

\* classifySite, medicalKeywords
\* ko: 병원 의원 클리닉 진료 시술 치료 의료진 의사 전문의 예약 상담 내원 부작용 회복 비용 가격
\* ja: 病院 クリニック 診療 施術 治療 医師 専門医 予約 相談 来院 副作用 回復 費用 料金
medicalKeywords(locale) ==
    IF locale = "ko"
    THEN {"byeongwon", "uiwon", "keullinik", "jillyo", "sisul", "chiryo", "uiryojin", "uisa",
          "jeonmunui", "yeyak", "sangdam", "naewon", "bujagyong", "hoebok", "biyong", "gagyeok"}
    ELSE {"byouin", "kurinikku", "shinryou", "sejutsu", "chiryou", "ishi", "senmoni", "yoyaku",
          "soudan", "raiin", "fukusayou", "kaifuku", "hiyou", "ryoukin"}

\* classifySite, structureKeywords
\* ko: 진료시간 오시는길 FAQ 문의 전화
\* ja: 診療時間 アクセス FAQ よくある質問 お問い合わせ 電話
structureKeywords(locale) ==
    IF locale = "ko"
    THEN {"jillyosigan", "osineungil", "FAQ", "munui", "jeonhwa"}
    ELSE {"shinryoujikan", "akusesu", "FAQ", "yokuarushitsumon", "otoiawase", "denwa"}

\* classifySite, nonHospitalCore
\* ko: 채용 인재 IR 회사소개 기업 쇼핑 구매 장바구니 카트 결제 제품
\* ja: 採用 求人 IR 会社概要 企業 購入 カート 決済 製品
nonHospitalCore(locale) ==
    IF locale = "ko"
    THEN {"chaeyong", "injae", "IR", "hoesasogae", "gieop", "syoping", "gumae", "jangbaguni",
          "kateu", "gyeolje", "jepum"}
    ELSE {"saiyou", "kyuujin", "IR", "kaishagaiyou", "kigyou", "kounyuu", "kaato", "kessai",
          "seihin"}

\* classifySite, medicalSchemaTypes
medicalSchemaTypes == {"MedicalClinic", "Physician", "Dentist", "Hospital", "MedicalBusiness"}

\* isStrongSignalPage, patterns
\* ko: 원인 증상 치료 시술 부작용 주의 회복 비용 가격 faq 질문
\* ja: 原因 症状 治療 施術 副作用 注意 回復 費用 料金 faq 質問
strongPatterns(locale) ==
    IF locale = "ko"
    THEN {"wonin", "jeungsang", "chiryo", "sisul", "bujagyong", "juui", "hoebok", "biyong",
          "gagyeok", "faq", "jilmun"}
    ELSE {"genin", "shoujou", "chiryou", "sejutsu", "fukusayou", "chuui", "kaifuku", "hiyou",
          "ryoukin", "faq", "shitsumon"}

\* calculateScore, addressSignalsKo / addressSignalsJa
\* ko: 주소 오시는 길 위치 진료시간 영업시간 전화 문의
\* ja: 住所 アクセス 所在地 診療時間 営業時間 電話 お問い合わせ
addressSignals(locale) ==
    IF locale = "ko"
    THEN {"juso", "osineun gil", "wichi", "jillyosigan", "yeongeopsigan", "jeonhwa", "munui"}
    ELSE {"juusho", "akusesu", "shozaichi", "shinryoujikan", "eigyoujikan", "denwa", "otoiawase"}

\* calculateScore, riskTermsKo / riskTermsJa
\* ko: 부작용 주의 주의사항 금기 합병증 회복 사후관리 통증 붓기 멍
\* ja: 副作用 注意 注意事項 禁忌 合併症 回復 アフターケア 痛み 腫れ 内出血
riskTerms(locale) ==
    IF locale = "ko"
    THEN {"bujagyong", "juui", "juuisahang", "geumgi", "hapbyeongjeung", "hoebok", "sahugwalli",
          "tongjeung", "butgi", "meong"}
    ELSE {"fukusayou", "chuui", "chuuijikou", "kinki", "gappeishou", "kaifuku", "afutaakea",
          "itami", "hare", "naishukketsu"}

\* calculateScore, docTermsKo / docTermsJa
\* ko: 의료진 원장 의사 전문의 경력 학회 자격
\* ja: 医師 院長 医者 専門医 経歴 学会 資格
docTerms(locale) ==
    IF locale = "ko"
    THEN {"uiryojin", "wonjang", "uisa", "jeonmunui", "gyeongnyeok", "hakhoe", "jagyeok"}
    ELSE {"ishi", "inchou", "isha", "senmoni", "keireki", "gakkai", "shikaku"}

\* pageHasFlow: cause / symptom / treatment
\* ko: 원인 | 증상 | 치료 시술 관리      ja: 原因 | 症状 | 治療 施術
causeTerms(locale) == IF locale = "ko" THEN {"wonin"} ELSE {"genin"}
symptomTerms(locale) == IF locale = "ko" THEN {"jeungsang"} ELSE {"shoujou"}
treatmentTerms(locale) ==
    IF locale = "ko" THEN {"chiryo", "sisul", "gwalli"} ELSE {"chiryou", "sejutsu"}

\* Words that pageHasContactInfo's phonePattern matches.
PhoneNumbers == {"02-555-0100", "03-5550-0100"}

----------------------------------------------------------------------------
(* Small helpers.                                                          *)

\* clamp leaving its argument as it is.
clampOff(n, min, max) == n

clamp(n, min, max) == IF n < min THEN min ELSE IF n > max THEN max ELSE n

Min(a, b) == IF a < b THEN a ELSE b

----------------------------------------------------------------------------
(* Site classifier.                                                        *)

isValidPageForClassification(page) ==
    LET bodyLen == Length(normalizeText(page.bodyText))
        hasTitle == Length(normalizeText(page.title)) > 0
        hasH1 == Len(page.h1) > 0
        hasH2 == Len(page.h2) > 0
    IN  \/ bodyLen >= 300
        \/ hasTitle /\ (hasH1 \/ hasH2)
        \/ hasH1

\* classifySite's combinedText(p): title, h1, h2 and the normalized body
combinedText(p) ==
    p.title.words \cup JoinWords(p.h1) \cup JoinWords(p.h2) \cup normalizeText(p.bodyText).words

SchemaHit(p) ==
    \E k \in DOMAIN p.schemaTypes : \E mt \in medicalSchemaTypes : Includes(p.schemaTypes[k], mt)

OrgOrLocalWithMedical(p, locale) ==
    /\ \E k \in DOMAIN p.schemaTypes :
           \/ Includes(toLowerCase(p.schemaTypes[k]), toLowerCase("LocalBusiness"))
           \/ Includes(toLowerCase(p.schemaTypes[k]), toLowerCase("Organization"))
    /\ containsAny(combinedText(p), medicalKeywords(locale))

\* (A) with each tier one page later: > 5, > 3, > 1.
MedicalPointsLate(medicalCoverage) ==
    IF medicalCoverage > 5 THEN 6
    ELSE IF medicalCoverage > 3 THEN 4
    ELSE IF medicalCoverage > 1 THEN 2
    ELSE 0

\* (A) medical keywords coverage
MedicalPoints(medicalCoverage) ==
    IF medicalCoverage >= 5 THEN 6
    ELSE IF medicalCoverage >= 3 THEN 4
    ELSE IF medicalCoverage >= 1 THEN 2
    ELSE 0

\* (B) with three points from three pages on.
StructurePointsThree(structureCoverage) ==
    IF structureCoverage >= 3 THEN 3
    ELSE IF structureCoverage >= 1 THEN 1
    ELSE 0

\* (B) structure keywords coverage
StructurePoints(structureCoverage) ==
    IF structureCoverage >= 3 THEN 2
    ELSE IF structureCoverage >= 1 THEN 1
    ELSE 0

\* (D) repetition bonus
RepetitionBonus(medicalCoverage) == IF medicalCoverage >= 3 THEN 1 ELSE 0

\* (E) non-hospital penalty
NonHospitalPenalty(nonHospitalCoverage) == IF nonHospitalCoverage >= 2 THEN -2 ELSE 0

\* The level decision without the promotion of "no" under three valid pages.
LevelWithoutPromotion(score, validPagesCount) ==
    IF score >= 6 THEN "yes" ELSE IF score >= 4 THEN "uncertain" ELSE "no"

\* The level decision with "yes" from five points on.
LevelYesFromFive(score, validPagesCount) ==
    LET level == IF score >= 5 THEN "yes" ELSE IF score >= 4 THEN "uncertain" ELSE "no"
    IN  IF validPagesCount < 3 /\ level = "no" THEN "uncertain" ELSE level

\* (2-4) level decision
LevelOf(score, validPagesCount) ==
    LET level == IF score >= 6 THEN "yes" ELSE IF score >= 4 THEN "uncertain" ELSE "no"
    IN  IF validPagesCount < 3 /\ level = "no" THEN "uncertain" ELSE level

classifySite(ps, locale) ==
    LET validIdx == {i \in DOMAIN ps : isValidPageForClassification(ps[i])}
        validPagesCount == Cardinality(validIdx)
        medicalCoverage ==
            Cardinality({i \in validIdx : containsAny(combinedText(ps[i]), medicalKeywords(locale))})
        structureCoverage ==
            Cardinality({i \in validIdx : containsAny(combinedText(ps[i]), structureKeywords(locale))})
        nonHospitalCoverage ==
            Cardinality({i \in validIdx : containsAny(combinedText(ps[i]), nonHospitalCore(locale))})
        schemaHit == \E i \in validIdx : SchemaHit(ps[i])
        orgOrLocalWithMedical == \E i \in validIdx : OrgOrLocalWithMedical(ps[i], locale)
        penalty == NonHospitalPenalty(nonHospitalCoverage)
        score == clamp(MedicalPoints(medicalCoverage)
                       + StructurePoints(structureCoverage)
                       + (IF schemaHit \/ orgOrLocalWithMedical THEN 3 ELSE 0)
                       + RepetitionBonus(medicalCoverage)
                       + penalty, 0, 10)
        level == LevelOf(score, validPagesCount)
    IN  [ isHospital |-> level = "yes",
          level |-> level,
          evidenceScore |-> score,
          evidence |-> << <<"medical_keyword_coverage", medicalCoverage>>,
                          <<"structure_keyword_coverage", structureCoverage>>,
                          <<"schema_medical", schemaHit \/ orgOrLocalWithMedical>>,
                          <<"non_hospital_penalty", penalty>>,
                          <<"validPages", validPagesCount>> >>,
          validPages |-> validPagesCount ]

----------------------------------------------------------------------------
(* Coverage scoring engine: page predicates.                               *)

\* The threshold of the classifier used for scoring: 300 characters.
isValidPageFrom300(page) == Length(normalizeText(page.bodyText)) >= 300

isValidPage(page) == Length(normalizeText(page.bodyText)) >= 400

isStrongSignalPage(page, locale) ==
    LET combined == page.title.words \cup JoinWords(page.h1) \cup JoinWords(page.h2)
                    \cup page.bodyText.words
        hits == Cardinality({term \in strongPatterns(locale) : IncludesLower(combined, term)})
    IN  hits >= 2

\* keywords.map(k => k.trim()).filter(Boolean), as the set of its elements
keywordList(inp) == {trim(inp.keywords[i]) : i \in DOMAIN inp.keywords} \ {""}

pageHasAnyKeyword(page, inp) ==
    LET combined == page.title.words \cup JoinWords(page.h1) \cup JoinWords(page.h2)
                    \cup {page.url} \cup page.bodyText.words
    IN  \E k \in keywordList(inp) : IncludesLower(combined, k)

\* normalizeText(page.bodyText).slice(0, 320)
pageBodyTopHasKeyword(page, inp) ==
    \E k \in keywordList(inp) : IncludesLower(normalizeText(page.bodyText).top, k)

pageH1HasKeyword(page, inp) ==
    \E k \in keywordList(inp) : IncludesLower(JoinWords(page.h1), k)

pageHasContactInfo(page, inp) ==
    LET body == normalizeText(page.bodyText)
        hasPhone == \E w \in body.words : w \in PhoneNumbers
        hasCue == containsAny(body.words, addressSignals(inp.locale))
    IN  hasPhone \/ hasCue

pageHasRiskInfo(page, inp) ==
    containsAny(normalizeText(page.bodyText).words, riskTerms(inp.locale))

pageHasDoctorInfo(page, inp) ==
    containsAny(page.title.words \cup JoinWords(page.h1) \cup page.bodyText.words,
                docTerms(inp.locale))

pageHasFlow(page, inp) ==
    LET text == JoinWords(page.h1) \cup JoinWords(page.h2) \cup normalizeText(page.bodyText).words
    IN  /\ containsAny(text, causeTerms(inp.locale))
        /\ containsAny(text, symptomTerms(inp.locale))
        /\ containsAny(text, treatmentTerms(inp.locale))

\* /faq/i.test(t) || /FAQPage/i.test(t)
pageHasFaqSchema(page) ==
    \E k \in DOMAIN page.schemaTypes :
        \/ Includes(toLowerCase(page.schemaTypes[k]), "faq")
        \/ Includes(toLowerCase(page.schemaTypes[k]), toLowerCase("FAQPage"))

\* /(MedicalClinic|MedicalOrganization|Hospital|Physician|LocalBusiness|Organization)/i
pageHasMedicalSchema(page) ==
    \E k \in DOMAIN page.schemaTypes :
        \E m \in {"MedicalClinic", "MedicalOrganization", "Hospital", "Physician",
                  "LocalBusiness", "Organization"} :
            Includes(toLowerCase(page.schemaTypes[k]), toLowerCase(m))

\* /sitemap/i.test(s)
MatchesSitemap(s) == Includes(toLowerCase(s), "sitemap")

hasSitemapProxy(ps) ==
    \/ \E i \in DOMAIN ps : MatchesSitemap(ps[i].url)
    \/ \E i \in DOMAIN ps :
           \E j \in DOMAIN ps[i].internalLinks : MatchesSitemap(ps[i].internalLinks[j])

\* The predicate each check of calculateScore hands to strongObserved.
Holds(pred, p, inp) ==
    CASE pred = "titleHasHospital" -> IncludesWord(p.title.words, inp.hospitalName)
      [] pred = "titleHasKeyword" -> containsAny(p.title.words, keywordList(inp))
      [] pred = "h1MatchesKeyword" -> pageH1HasKeyword(p, inp)
      [] pred = "bodyTopKeyword" -> pageBodyTopHasKeyword(p, inp)
      [] pred = "servicePage" -> pageHasAnyKeyword(p, inp)
      [] pred = "locationInfo" -> pageHasContactInfo(p, inp)
      [] pred = "singleH1" -> Len(p.h1) = 1
      [] pred = "richH2" -> Len(p.h2) >= 3
      [] pred = "enoughContent" -> Length(normalizeText(p.bodyText)) >= 900
      [] pred = "internalLinking" -> Len(p.internalLinks) >= 6
      [] pred = "headingMix" -> Len(p.h1) >= 1 /\ Len(p.h2) >= 1
      [] pred = "metaDesc" -> Length(normalizeText(p.description)) >= 30
      [] pred = "canonical" -> p.hasCanonical
      [] pred = "og" -> p.hasOgTags
      [] pred = "viewport" -> p.hasViewport
      [] pred = "doctor" -> pageHasDoctorInfo(p, inp)
      [] pred = "contact" -> pageHasContactInfo(p, inp)
      [] pred = "riskInfoObserved" -> pageHasRiskInfo(p, inp)
      [] pred = "flow" -> pageHasFlow(p, inp)
      [] pred = "faqSchema" -> pageHasFaqSchema(p)
      [] pred = "medicalSchema" -> pageHasMedicalSchema(p)
      [] pred = "faq5" -> p.faqCount >= 5
      [] pred = "faq3" -> p.faqCount >= 3

validPagesOf(ps) == {i \in DOMAIN ps : isValidPage(ps[i])}

strongPagesOf(ps, locale) == {i \in validPagesOf(ps) : isStrongSignalPage(ps[i], locale)}

\* The names of the page predicates of Holds.
Predicates ==
    { "titleHasHospital", "titleHasKeyword", "h1MatchesKeyword", "bodyTopKeyword",
      "servicePage", "locationInfo", "singleH1", "richH2", "enoughContent",
      "internalLinking", "headingMix", "metaDesc", "canonical", "og", "viewport", "doctor",
      "contact", "riskInfoObserved", "flow", "faqSchema", "medicalSchema", "faq5", "faq3" }

\* strongObserved(predicate), over the indices of validPages and strongPages;
\* the sitemap check builds the same record from the site-wide hasSitemapProxy.
strongObserved(ps, inp, valid, strong, pred) ==
    IF pred = "sitemap"
    THEN [observedPages |-> IF hasSitemapProxy(ps) THEN 1 ELSE 0,
          strongObservedPages |-> 0]
    ELSE [observedPages |-> Cardinality({i \in valid : Holds(pred, ps[i], inp)}),
          strongObservedPages |-> Cardinality({i \in strong : Holds(pred, ps[i], inp)})]

\* What calculateScore computes once and its checks read: the pages, the
\* input, the indices of validPages and of strongPages, and the counts
\* strongObserved returns for each predicate.
ContextOf(ps, inp, valid, strong) ==
    [pages |-> ps, input |-> inp, validPages |-> valid, strongPages |-> strong,
     observed |-> [pred \in Predicates \cup {"sitemap"} |->
                      strongObserved(ps, inp, valid, strong, pred)]]

Context(ps, inp) == ContextOf(ps, inp, validPagesOf(ps), strongPagesOf(ps, inp.locale))

----------------------------------------------------------------------------
(* Coverage scoring engine: the checks of each category.                   *)

CategoryKeys == <<"relevance", "structure", "indexing", "trust", "faq_schema">>

\* The checks of a category in the order calculateScore evaluates them. Per
\* check: the predicate counted, the tokens pushed to signals when it is
\* observed on a page, the arguments given to scoreByCoverage (minCoverage in
\* hundredths, <<>> when none is passed) and to makeCheckCandidate (<<>> when
\* the check records no candidate; okMinCoverage in hundredths).
ChecksOf(cat) ==
    CASE cat = "relevance" ->
        << [pred |-> "titleHasHospital", signals |-> <<"title_has_hospital">>, basePoints |-> 6, minCoverage |-> <<>>,
           cand |-> <<[key |-> "title_has_hospital", label |-> "titleHospital", okMinCoverage |-> 10, weight |-> 2]>>],
           [pred |-> "titleHasKeyword", signals |-> <<"title_has_keyword">>, basePoints |-> 4, minCoverage |-> <<>>,
           cand |-> <<[key |-> "title_has_keyword", label |-> "titleKeyword", okMinCoverage |-> 30, weight |-> 3]>>],
           [pred |-> "h1MatchesKeyword", signals |-> <<"h1_matches_keyword">>, basePoints |-> 4, minCoverage |-> <<>>,
           cand |-> <<[key |-> "h1_matches_keyword", label |-> "h1Keyword", okMinCoverage |-> 30, weight |-> 3]>>],
           [pred |-> "bodyTopKeyword", signals |-> <<"body_top_keyword">>, basePoints |-> 3, minCoverage |-> <<30>>,
           cand |-> <<>>],
           [pred |-> "servicePage", signals |-> <<"has_service_page">>, basePoints |-> 3, minCoverage |-> <<>>,
           cand |-> <<[key |-> "has_service_page", label |-> "servicePage", okMinCoverage |-> 10, weight |-> 4]>>],
           [pred |-> "locationInfo", signals |-> <<"has_location_info">>, basePoints |-> 2, minCoverage |-> <<50>>,
           cand |-> <<[key |-> "has_location_info", label |-> "locationInfo", okMinCoverage |-> 50, weight |-> 1]>>] >>
      [] cat = "structure" ->
        << [pred |-> "singleH1", signals |-> <<"good_h1_structure">>, basePoints |-> 5, minCoverage |-> <<30>>,
           cand |-> <<[key |-> "good_h1_structure", label |-> "singleH1", okMinCoverage |-> 30, weight |-> 3]>>],
           [pred |-> "richH2", signals |-> <<"rich_h2_structure">>, basePoints |-> 4, minCoverage |-> <<30>>,
           cand |-> <<[key |-> "rich_h2_structure", label |-> "richH2", okMinCoverage |-> 30, weight |-> 2]>>],
           [pred |-> "enoughContent", signals |-> <<"sufficient_content_length">>, basePoints |-> 6, minCoverage |-> <<30>>,
           cand |-> <<[key |-> "sufficient_content_length", label |-> "contentLength", okMinCoverage |-> 30, weight |-> 4]>>],
           [pred |-> "internalLinking", signals |-> <<"internal_linking_ok">>, basePoints |-> 3, minCoverage |-> <<50>>,
           cand |-> <<[key |-> "internal_linking_ok", label |-> "internalLinks", okMinCoverage |-> 50, weight |-> 1]>>],
           [pred |-> "headingMix", signals |-> <<>>, basePoints |-> 2, minCoverage |-> <<30>>,
           cand |-> <<[key |-> "heading_hierarchy_ok", label |-> "headingMix", okMinCoverage |-> 30, weight |-> 2]>>] >>
      [] cat = "indexing" ->
        << [pred |-> "metaDesc", signals |-> <<"has_meta_description">>, basePoints |-> 5, minCoverage |-> <<30>>,
           cand |-> <<[key |-> "has_meta_description", label |-> "metaDescription", okMinCoverage |-> 30, weight |-> 2]>>],
           [pred |-> "canonical", signals |-> <<"has_canonical">>, basePoints |-> 7, minCoverage |-> <<30>>,
           cand |-> <<[key |-> "has_canonical", label |-> "canonical", okMinCoverage |-> 30, weight |-> 4]>>],
           [pred |-> "sitemap", signals |-> <<"has_sitemap">>, basePoints |-> 4, minCoverage |-> <<>>,
           cand |-> <<[key |-> "has_sitemap", label |-> "sitemap", okMinCoverage |-> 1, weight |-> 3]>>],
           [pred |-> "og", signals |-> <<"og_ok">>, basePoints |-> 2, minCoverage |-> <<50>>,
           cand |-> <<[key |-> "og_ok", label |-> "ogTags", okMinCoverage |-> 50, weight |-> 1]>>],
           [pred |-> "viewport", signals |-> <<"viewport_ok">>, basePoints |-> 2, minCoverage |-> <<50>>,
           cand |-> <<[key |-> "viewport_ok", label |-> "viewport", okMinCoverage |-> 50, weight |-> 1]>>] >>
      [] cat = "trust" ->
        << [pred |-> "doctor", signals |-> <<"has_doctor_page">>, basePoints |-> 6, minCoverage |-> <<30>>,
           cand |-> <<[key |-> "has_doctor_page", label |-> "doctorInfo", okMinCoverage |-> 30, weight |-> 3]>>],
           [pred |-> "contact", signals |-> <<"has_contact_hours_phone">>, basePoints |-> 3, minCoverage |-> <<50>>,
           cand |-> <<[key |-> "has_contact_hours_phone", label |-> "contactInfo", okMinCoverage |-> 50, weight |-> 1]>>],
           [pred |-> "riskInfoObserved", signals |-> <<"has_risk_info">>, basePoints |-> 7, minCoverage |-> <<>>,
           cand |-> <<[key |-> "has_risk_info", label |-> "riskInfo", okMinCoverage |-> 10, weight |-> 5]>>],
           [pred |-> "flow", signals |-> <<"has_cause_symptom_treatment_flow", "semantic_flow_ok">>, basePoints |-> 4, minCoverage |-> <<>>,
           cand |-> <<[key |-> "semantic_flow_ok", label |-> "semanticFlow", okMinCoverage |-> 10, weight |-> 4]>>] >>
      [] cat = "faq_schema" ->
        << [pred |-> "faqSchema", signals |-> <<"has_faq_schema">>, basePoints |-> 8, minCoverage |-> <<>>,
           cand |-> <<[key |-> "has_faq_schema", label |-> "faqSchema", okMinCoverage |-> 1, weight |-> 5]>>],
           [pred |-> "medicalSchema", signals |-> <<"has_medical_schema">>, basePoints |-> 6, minCoverage |-> <<>>,
           cand |-> <<[key |-> "has_medical_schema", label |-> "medicalSchema", okMinCoverage |-> 1, weight |-> 4]>>],
           [pred |-> "faq5", signals |-> <<"rich_faq_5plus">>, basePoints |-> 4, minCoverage |-> <<>>,
           cand |-> <<[key |-> "faq_count_5plus", label |-> "faq5", okMinCoverage |-> 10, weight |-> 3]>>],
           [pred |-> "faq3", signals |-> <<"faq_3plus">>, basePoints |-> 2, minCoverage |-> <<>>,
           cand |-> <<[key |-> "faq_count_3plus", label |-> "faq3", okMinCoverage |-> 10, weight |-> 2]>>] >>

\* The steps taken only above their thresholds: > 0.5, > 0.3, > 0.1.
coverageFactorStrict(w2, pagesAnalyzed) ==
    IF 10 * w2 > 5 * 2 * pagesAnalyzed THEN 10
    ELSE IF 10 * w2 > 3 * 2 * pagesAnalyzed THEN 7
    ELSE IF 10 * w2 > 1 * 2 * pagesAnalyzed THEN 4
    ELSE 0

\* Full points for a signal observed anywhere on the site.
coverageFactorSiteWide(w2, pagesAnalyzed) == IF w2 > 0 THEN 10 ELSE 0

\* coverageFactor, in tenths, of the coverage w2 / (2 * pagesAnalyzed)
coverageFactor(w2, pagesAnalyzed) ==
    IF 10 * w2 >= 5 * 2 * pagesAnalyzed THEN 10
    ELSE IF 10 * w2 >= 3 * 2 * pagesAnalyzed THEN 7
    ELSE IF 10 * w2 >= 1 * 2 * pagesAnalyzed THEN 4
    ELSE 0

\* The strong-signal bonus without the cap at the page count.
weightedObserved2Uncapped(pagesAnalyzed, observedPages, strongObservedPages) ==
    2 * observedPages + strongObservedPages

\* Twice the weightedObserved of scoreByCoverage and weightedCoverage:
\* Math.min(pagesAnalyzed, observedPages + strongObservedPages * 0.5)
weightedObserved2(pagesAnalyzed, observedPages, strongObservedPages) ==
    Min(2 * pagesAnalyzed, 2 * observedPages + strongObservedPages)

\* The step function alone, whatever the minCoverage gate.
scoreFactorUngated(args) ==
    IF args.pagesAnalyzed <= 0 THEN 0
    ELSE coverageFactor(weightedObserved2(args.pagesAnalyzed, args.observedPages,
                                          args.strongObservedPages), args.pagesAnalyzed)

\* The factor scoreByCoverage multiplies basePoints by, in tenths: 0 when
\* pagesAnalyzed <= 0 or when the coverage is under the minCoverage gate.
scoreFactor(args) ==
    LET w2 == weightedObserved2(args.pagesAnalyzed, args.observedPages, args.strongObservedPages)
    IN  IF args.pagesAnalyzed <= 0 THEN 0
        ELSE IF args.minCoverage # <<>> /\ 100 * w2 < args.minCoverage[1] * 2 * args.pagesAnalyzed
             THEN 0
        ELSE coverageFactor(w2, args.pagesAnalyzed)

\* scoreByCoverage, in tenths of a point
scoreByCoverage(args) == args.basePoints * scoreFactor(args)

\* The arguments calculateScore passes for one check:
\* { pagesAnalyzed, ...strongObserved(pred), basePoints, minCoverage }
CheckArgs(ctx, c) ==
    LET o == ctx.observed[c.pred]
    IN  [pagesAnalyzed |-> Len(ctx.pages), observedPages |-> o.observedPages,
         strongObservedPages |-> o.strongObservedPages,
         basePoints |-> c.basePoints, minCoverage |-> c.minCoverage]

\* The factors (tenths) of the checks of a category, in evaluation order.
FactorsOf(ctx, cat) ==
    [k \in DOMAIN ChecksOf(cat) |-> scoreFactor(CheckArgs(ctx, ChecksOf(cat)[k]))]

RECURSIVE SumPoints(_, _)
SumPoints(ctx, checks) ==
    IF checks = <<>> THEN 0
    ELSE scoreByCoverage(CheckArgs(ctx, Head(checks))) + SumPoints(ctx, Tail(checks))

\* The category's points after the last check and clamp(x, 0, 20), in tenths.
RawCategory(ctx, cat) == clamp(SumPoints(ctx, ChecksOf(cat)), 0, 200)

RECURSIVE SignalsOfChecks(_, _)
SignalsOfChecks(ctx, checks) ==
    IF checks = <<>> THEN <<>>
    ELSE LET c == Head(checks)
             pushed == IF ctx.observed[c.pred].observedPages > 0
                       THEN [k \in DOMAIN c.signals |-> <<c.signals[k]>>]
                       ELSE <<>>
         IN  pushed \o SignalsOfChecks(ctx, Tail(checks))

----------------------------------------------------------------------------
(* Coverage scoring engine: check candidates.                              *)

\* weightedCoverage, as the fraction num / den
weightedCoverage(pagesAnalyzed, observedPages, strongObservedPages) ==
    IF pagesAnalyzed <= 0 THEN [num |-> 0, den |-> 1]
    ELSE [num |-> weightedObserved2(pagesAnalyzed, observedPages, strongObservedPages),
          den |-> 2 * pagesAnalyzed]

\* a.coverage - b.coverage, up to a positive factor
CoverageDiff(a, b) == a.coverage.num * b.coverage.den - b.coverage.num * a.coverage.den

makeCheckCandidate(args) ==
    LET coverage == weightedCoverage(args.pagesAnalyzed, args.observedPages,
                                     args.strongObservedPages)
        ok == IF args.okMinCoverage = <<>> THEN args.observedPages > 0
              ELSE 100 * coverage.num >= args.okMinCoverage[1] * coverage.den
    IN  [key |-> args.key, label |-> args.label, ok |-> ok, weight |-> args.weight,
         coverage |-> coverage]

\* One comparator for both lists: weight descending, coverage ascending.
CompareChecksCoverageAscending(a, b, failing) ==
    IF b.weight - a.weight # 0 THEN b.weight - a.weight ELSE CoverageDiff(a, b)

\* The comparators of pickFourChecks: a negative result, a sorts before b.
\* fails:  (b.weight - a.weight) || (a.coverage - b.coverage)
\* passes: (b.weight - a.weight) || (b.coverage - a.coverage)
CompareChecks(a, b, failing) ==
    IF b.weight - a.weight # 0 THEN b.weight - a.weight
    ELSE IF failing THEN CoverageDiff(a, b) ELSE CoverageDiff(b, a)

\* Array.prototype.sort is stable: x goes after every element it does not
\* sort strictly before.
RECURSIVE InsertSorted(_, _, _)
InsertSorted(x, sorted, failing) ==
    IF sorted = <<>> THEN <<x>>
    ELSE IF CompareChecks(x, Head(sorted), failing) < 0 THEN <<x>> \o sorted
    ELSE <<Head(sorted)>> \o InsertSorted(x, Tail(sorted), failing)

RECURSIVE SortChecks(_, _)
SortChecks(cs, failing) ==
    IF cs = <<>> THEN <<>>
    ELSE InsertSorted(cs[Len(cs)], SortChecks(SubSeq(cs, 1, Len(cs) - 1), failing), failing)

\* arr.slice(from, to) with 0-based from (inclusive) and to (exclusive)
Slice(seq, from, to) == SubSeq(seq, from + 1, Min(to, Len(seq)))

\* The backfill loop of pickFourChecks over the remaining candidates.
RECURSIVE Backfill(_, _)
Backfill(chosen, remaining) ==
    IF remaining = <<>> \/ Len(chosen) >= 4 THEN chosen
    ELSE IF \E i \in DOMAIN chosen : chosen[i].key = Head(remaining).key
         THEN Backfill(chosen, Tail(remaining))
    ELSE Backfill(Append(chosen, Head(remaining)), Tail(remaining))

\* The two first failing and the two first passing candidates, no backfill.
pickFourChecksNoBackfill(candidates) ==
    LET fails == SortChecks(SelectSeq(candidates, LAMBDA c : ~c.ok), TRUE)
        passes == SortChecks(SelectSeq(candidates, LAMBDA c : c.ok), FALSE)
        out == Slice(Slice(fails, 0, 2) \o Slice(passes, 0, 2), 0, 4)
    IN  [i \in DOMAIN out |-> [key |-> out[i].key, ok |-> out[i].ok, label |-> out[i].label]]

pickFourChecks(candidates) ==
    LET fails == SortChecks(SelectSeq(candidates, LAMBDA c : ~c.ok), TRUE)
        passes == SortChecks(SelectSeq(candidates, LAMBDA c : c.ok), FALSE)
        first == Slice(fails, 0, 2) \o Slice(passes, 0, 2)
        chosen == IF Len(first) < 4
                  THEN Backfill(first, Slice(fails, 2, Len(fails)) \o Slice(passes, 2, Len(passes)))
                  ELSE first
        out == Slice(chosen, 0, 4)
    IN  [i \in DOMAIN out |-> [key |-> out[i].key, ok |-> out[i].ok, label |-> out[i].label]]

\* checkCandidates[cat] once every check of the category has run
RECURSIVE CandidatesOfChecks(_, _)
CandidatesOfChecks(ctx, checks) ==
    IF checks = <<>> THEN <<>>
    ELSE LET c == Head(checks)
             o == ctx.observed[c.pred]
             made == IF c.cand = <<>> THEN <<>>
                     ELSE << makeCheckCandidate(
                               [key |-> c.cand[1].key,
                                label |-> <<ctx.input.locale, c.cand[1].label>>,
                                pagesAnalyzed |-> Len(ctx.pages),
                                observedPages |-> o.observedPages,
                                strongObservedPages |-> o.strongObservedPages,
                                okMinCoverage |-> <<c.cand[1].okMinCoverage>>,
                                weight |-> c.cand[1].weight]) >>
         IN  made \o CandidatesOfChecks(ctx, Tail(checks))

checkCandidates(ctx, cat) == CandidatesOfChecks(ctx, ChecksOf(cat))

----------------------------------------------------------------------------
(* Coverage scoring engine: caps, confidence scaling, total.               *)

\* Number arithmetic is IEEE-754 double arithmetic. With the factors 0.7 and
\* 0.4 a category's sum of basePoints * factor can come out one unit in the
\* last place under the exact decimal sum; the only place where that decides
\* a result is Math.round(sum * confidenceFactor) when the exact product is a
\* half-integer. These are the categories and factor sequences (tenths, in
\* evaluation order) whose double sum is under the exact sum and for which
\* such a half-integer product exists with pagesAnalyzed <= CrawlLimit.
DoubleSumBelowExact ==
    { <<"faq_schema", <<0, 7, 0, 4>>>>,
      <<"faq_schema", <<7, 7, 7, 7>>>>,
      <<"indexing", <<7, 7, 4, 0, 0>>>>,
      <<"indexing", <<7, 7, 4, 10, 10>>>>,
      <<"indexing", <<10, 7, 4, 0, 0>>>>,
      <<"indexing", <<10, 7, 4, 0, 10>>>>,
      <<"indexing", <<10, 7, 4, 10, 0>>>>,
      <<"indexing", <<10, 7, 4, 10, 10>>>>,
      <<"relevance", <<7, 0, 0, 7, 4, 0>>>>,
      <<"relevance", <<7, 0, 4, 7, 7, 0>>>>,
      <<"relevance", <<7, 4, 0, 7, 7, 0>>>>,
      <<"relevance", <<7, 4, 4, 0, 7, 0>>>>,
      <<"relevance", <<7, 4, 4, 0, 7, 10>>>>,
      <<"relevance", <<7, 4, 4, 7, 0, 0>>>>,
      <<"relevance", <<7, 4, 4, 7, 0, 10>>>>,
      <<"relevance", <<7, 4, 4, 7, 10, 0>>>>,
      <<"relevance", <<7, 4, 4, 7, 10, 10>>>>,
      <<"relevance", <<7, 4, 4, 10, 7, 0>>>>,
      <<"relevance", <<7, 4, 4, 10, 7, 10>>>>,
      <<"relevance", <<7, 4, 10, 7, 7, 0>>>>,
      <<"relevance", <<7, 4, 10, 7, 7, 10>>>>,
      <<"relevance", <<7, 7, 7, 7, 7, 0>>>>,
      <<"relevance", <<7, 7, 7, 7, 7, 10>>>>,
      <<"relevance", <<7, 10, 4, 7, 7, 0>>>>,
      <<"relevance", <<7, 10, 4, 7, 7, 10>>>>,
      <<"relevance", <<10, 4, 7, 0, 7, 0>>>>,
      <<"relevance", <<10, 4, 7, 0, 7, 10>>>>,
      <<"relevance", <<10, 4, 7, 7, 0, 0>>>>,
      <<"relevance", <<10, 4, 7, 7, 0, 10>>>>,
      <<"relevance", <<10, 4, 7, 7, 10, 0>>>>,
      <<"relevance", <<10, 4, 7, 10, 7, 0>>>>,
      <<"trust", <<10, 0, 7, 4>>>>,
      <<"trust", <<10, 10, 7, 4>>>> }

\* Math.round(x) for x = num / den >= 0: the nearest integer, halves upward;
\* `below` says the double holding x is under the exact num / den.
MathRound(num, den, below) ==
    LET nearest == (2 * num + den) \div (2 * den)
        half == (2 * num) % den = 0 /\ ((2 * num) \div den) % 2 = 1
    IN  IF half /\ below THEN nearest - 1 ELSE nearest

\* Number(x.toFixed(digits)) for x = num / den, as an integer count of
\* 10^-digits
toFixed(num, den, scale) == (2 * scale * num + den) \div (2 * den)

\* (p.faqCount || 0) summed over the valid pages
RECURSIVE SumFaq(_, _)
SumFaq(ps, idx) ==
    IF idx = {} THEN 0
    ELSE LET i == CHOOSE j \in idx : TRUE IN ps[i].faqCount + SumFaq(ps, idx \ {i})

totalFaq(ctx) == SumFaq(ctx.pages, ctx.validPages)

hasCanonicalAny(ctx) == \E i \in ctx.validPages : ctx.pages[i].hasCanonical

hasFaqSchemaAny(ctx) == \E i \in ctx.validPages : pageHasFaqSchema(ctx.pages[i])

hasMedicalSchemaAny(ctx) == \E i \in ctx.validPages : pageHasMedicalSchema(ctx.pages[i])

\* The indexing cap decided on the canonical tags of all pages, valid or not.
IndexingCapSetAnyPage(ctx) ==
    ~hasSitemapProxy(ctx.pages) /\ ~\E i \in DOMAIN ctx.pages : ctx.pages[i].hasCanonical

\* The trust cap decided on the risk vocabulary of all pages, valid or not.
TrustCapSetAnyPage(ctx) ==
    ~\E i \in DOMAIN ctx.pages : pageHasRiskInfo(ctx.pages[i], ctx.input)

\* The indexing cap set when either the sitemap or the canonical tag is missing.
IndexingCapSetEitherMissing(ctx) == ~hasSitemapProxy(ctx.pages) \/ ~hasCanonicalAny(ctx)

\* The indexing cap set whenever the sitemap proxy is missing.
IndexingCapSetNoSitemap(ctx) == ~hasSitemapProxy(ctx.pages)

\* ---- Caps (A-5) ----: which caps are set
IndexingCapSet(ctx) == ~hasSitemapProxy(ctx.pages) /\ ~hasCanonicalAny(ctx)

TrustCapSet(ctx) == ctx.observed["riskInfoObserved"].observedPages = 0

TotalCapSet(ctx) == totalFaq(ctx) < 3 /\ ~hasFaqSchemaAny(ctx)

CapsOf(ctx) ==
    LET keys == {k \in {"indexingCap", "trustCap", "totalCap"} :
                    \/ k = "indexingCap" /\ IndexingCapSet(ctx)
                    \/ k = "trustCap" /\ TrustCapSet(ctx)
                    \/ k = "totalCap" /\ TotalCapSet(ctx)}
    IN  [k \in keys |-> IF k = "totalCap" THEN 80 ELSE 14]

\* The category's raw points (tenths) after the caps block:
\* indexing = Math.min(indexing, caps.indexingCap), trust likewise.
CappedRaw(ctx, cat, caps) ==
    LET raw == RawCategory(ctx, cat)
    IN  IF cat = "indexing" /\ "indexingCap" \in DOMAIN caps THEN Min(raw, 10 * caps.indexingCap)
        ELSE IF cat = "trust" /\ "trustCap" \in DOMAIN caps THEN Min(raw, 10 * caps.trustCap)
        ELSE raw

\* Whether the double holding the category's raw points is under the exact
\* decimal value: a sum that is, and that no clamp or cap replaced.
RawIsBelow(ctx, cat, caps) ==
    /\ <<cat, FactorsOf(ctx, cat)>> \in DoubleSumBelowExact
    /\ SumPoints(ctx, ChecksOf(cat)) = CappedRaw(ctx, cat, caps)

\* The confidence factor taken from the share of pages that are not valid.
ConfidenceScaledByInvalidRatio(rawTenths, below, validPagesCount, pagesAnalyzed) ==
    clamp(MathRound(rawTenths * (65 * pagesAnalyzed + 35 * (pagesAnalyzed - validPagesCount)),
                    1000 * pagesAnalyzed, below), 0, 20)

\* ---- A-3: confidence adjustment ----
\* clamp(Math.round(raw * confidenceFactor), 0, 20) with
\* confidenceFactor = 0.65 + 0.35 * validPagesCount / pagesAnalyzed
ConfidenceScaled(rawTenths, below, validPagesCount, pagesAnalyzed) ==
    clamp(MathRound(rawTenths * (65 * pagesAnalyzed + 35 * validPagesCount),
                    1000 * pagesAnalyzed, below), 0, 20)

\* Re-apply category caps after scaling.
ReapplyCaps(cat, value, caps) ==
    IF cat = "indexing" /\ "indexingCap" \in DOMAIN caps THEN Min(value, caps.indexingCap)
    ELSE IF cat = "trust" /\ "trustCap" \in DOMAIN caps THEN Min(value, caps.trustCap)
    ELSE value

ScaledCategory(ctx, cat, caps) ==
    ReapplyCaps(cat,
                ConfidenceScaled(CappedRaw(ctx, cat, caps), RawIsBelow(ctx, cat, caps),
                                 Cardinality(ctx.validPages), Len(ctx.pages)),
                caps)

ScaledCategories(ctx, caps) ==
    [ relevance |-> ScaledCategory(ctx, "relevance", caps),
      structure |-> ScaledCategory(ctx, "structure", caps),
      indexing |-> ScaledCategory(ctx, "indexing", caps),
      trust |-> ScaledCategory(ctx, "trust", caps),
      faq_schema |-> ScaledCategory(ctx, "faq_schema", caps) ]

SumCategories(c) == c.relevance + c.structure + c.indexing + c.trust + c.faq_schema

\* Apply total cap by proportionally scaling category scores.
ApplyTotalCap(scaled, caps) ==
    LET total == SumCategories(scaled)
    IN  IF "totalCap" \in DOMAIN caps /\ total > caps.totalCap
        THEN [cat \in DOMAIN scaled |->
                 clamp(MathRound(scaled[cat] * caps.totalCap, total, FALSE), 0, 20)]
        ELSE scaled

\* The total cap as a clamp of the sum, the categories left as they are.
TotalClampedToCap(categories) == Min(SumCategories(categories), 80)

\* total = clamp(Math.round(total), 0, 100) of the sum of the final categories
TotalOf(categories) == clamp(MathRound(SumCategories(categories), 1, FALSE), 0, 100)

----------------------------------------------------------------------------
(* calculateScore.                                                         *)

RECURSIVE SignalsOfCategories(_, _)
SignalsOfCategories(ctx, cats) ==
    IF cats = <<>> THEN <<>>
    ELSE SignalsOfChecks(ctx, ChecksOf(Head(cats)))
         \o SignalsOfCategories(ctx, Tail(cats))

\* A zero-result without the "No pages analyzed" signal.
ZeroResultNoSignal ==
    [ total |-> 0,
      categories |-> [relevance |-> 0, structure |-> 0, indexing |-> 0, trust |-> 0,
                      faq_schema |-> 0],
      details |-> [ signals |-> <<>>,
                    metrics |-> [pagesAnalyzed |-> 0, validPages |-> 0, validRatio |-> 0,
                                 strongPages |-> 0] ] ]

\* The explicit zero-result of the pagesAnalyzed === 0 early return.
ZeroResult ==
    [ total |-> 0,
      categories |-> [relevance |-> 0, structure |-> 0, indexing |-> 0, trust |-> 0,
                      faq_schema |-> 0],
      details |-> [ signals |-> << <<"No pages analyzed">> >>,
                    metrics |-> [pagesAnalyzed |-> 0, validPages |-> 0, validRatio |-> 0,
                                 strongPages |-> 0] ] ]

\* The signals pushed, in order: the four metrics, the checks of the five
\* categories, then the three closing tokens.
SignalsOf(ctx) ==
    LET pagesAnalyzed == Len(ctx.pages)
        validPagesCount == Cardinality(ctx.validPages)
    IN  << <<"pages_analyzed", pagesAnalyzed>>,
           <<"valid_pages", validPagesCount>>,
           <<"valid_ratio", toFixed(validPagesCount, pagesAnalyzed, 100)>>,
           <<"strong_pages", Cardinality(ctx.strongPages)>> >>
        \o SignalsOfCategories(ctx, CategoryKeys)
        \o (IF hasFaqSchemaAny(ctx) THEN << <<"cap_guard_faq_schema_ok">> >> ELSE <<>>)
        \o (IF hasMedicalSchemaAny(ctx) THEN << <<"schema_medical_present">> >> ELSE <<>>)
        \o (IF hasSitemapProxy(ctx.pages) THEN << <<"sitemap_present">> >> ELSE <<>>)

\* The returned object, from the caps and the final categories.
ResultOf(ctx, caps, categories) ==
    [ total |-> TotalOf(categories),
      categories |-> categories,
      details |->
        [ signals |-> SignalsOf(ctx),
          metrics |-> [pagesAnalyzed |-> Len(ctx.pages),
                       validPages |-> Cardinality(ctx.validPages),
                       validRatio |-> toFixed(Cardinality(ctx.validPages), Len(ctx.pages), 1000),
                       strongPages |-> Cardinality(ctx.strongPages)],
          checks |-> [cat \in {"relevance", "structure", "indexing", "trust", "faq_schema"} |->
                         pickFourChecks(checkCandidates(ctx, cat))],
          caps |-> caps ] ]

\* Confidence scaling, the caps again, and the total cap.
ScoredWithCaps(ctx, caps) == ResultOf(ctx, caps, ApplyTotalCap(ScaledCategories(ctx, caps), caps))

\* The caps block.
ScoredFrom(ctx) == ScoredWithCaps(ctx, CapsOf(ctx))

ScoredResult(ps, inp) == ScoredFrom(Context(ps, inp))

calculateScore(ps, inp) ==
    IF Len(ps) = 0 THEN ZeroResult ELSE ScoredResult(ps, inp)

----------------------------------------------------------------------------
(* The inputs explored: crawled pages and request bodies.                  *)

Page(url, title, description, h1, h2, bodyText, meta, schemaTypes, internalLinks, faqCount) ==
    [ url |-> url, title |-> title, description |-> description, h1 |-> h1, h2 |-> h2,
      bodyText |-> bodyText,
      hasCanonical |-> "canonical" \in meta, hasViewport |-> "viewport" \in meta,
      hasOgTags |-> "og" \in meta, hasSchema |-> schemaTypes # <<>>,
      schemaTypes |-> schemaTypes, internalLinks |-> internalLinks, faqCount |-> faqCount ]

\* A clinic home page with every signal but FAQ content; links to a sitemap.
HomeKo ==
    Page("/", Short({"miso-uiwon", "impeullanteu"}, 24, 0), Short({}, 48, 2),
         << {"impeullanteu", "chiryo"} >>, << {"wonin"}, {"jeungsang"}, {"chiryo"} >>,
         Text({"impeullanteu", "wonin", "jeungsang", "chiryo", "bujagyong", "jeonmunui",
               "jeonhwa", "02-555-0100"}, {"impeullanteu"}, 1200, 60),
         {"canonical", "viewport", "og"}, <<"MedicalClinic">>,
         <<"/about", "/doctors", "/impeullanteu", "/faq", "/contact", "/sitemap.xml">>, 0)

\* A FAQ page: FAQPage structured data and five questions.
FaqKo ==
    Page("/faq", Short({"FAQ", "miso-uiwon"}, 12, 0), Short({}, 12, 0),
         << {"FAQ"} >>, <<>>,
         Text({"jilmun", "biyong", "hoebok"}, {"jilmun"}, 640, 12),
         {"canonical", "viewport"}, <<"FAQPage">>, <<"/", "/contact">>, 5)

\* An aftercare page: risk vocabulary, two H1, two questions, no meta tags.
CareKo ==
    Page("/impeullanteu", Short({"impeullanteu"}, 10, 0), EmptyText,
         << {"impeullanteu"}, {"juuisahang"} >>, << {"sahugwalli"} >>,
         Text({"juuisahang", "sahugwalli", "tongjeung"}, {}, 450, 0),
         {"viewport"}, <<>>, <<"/">>, 2)

\* A short contact page: has a title and an H1 but a body under 300
\* characters, which names a risk term.
ContactKo ==
    Page("/contact", Short({"osineungil"}, 8, 1), Short({}, 30, 0),
         << {"jeonhwa"} >>, <<>>,
         Short({"jeonhwa", "02-555-0100", "tongjeung"}, 120, 5),
         {"canonical"}, <<>>, <<"/">>, 0)

\* A web-shop page: commerce vocabulary, Organization and Product data.
ShopKo ==
    Page("/shop", Short({"jepum"}, 6, 0), Short({}, 36, 0), <<>>, <<>>,
         Text({"jepum", "jangbaguni", "gyeolje"}, {"jepum"}, 520, 0),
         {"viewport", "og"}, <<"Organization", "Product">>,
         <<"/", "/cart", "/a", "/b", "/c", "/d">>, 0)

\* A recruiting page without any markup signal.
RecruitKo ==
    Page("/recruit", Short({"chaeyong"}, 4, 0), EmptyText, <<>>, <<>>,
         Text({"chaeyong", "injae"}, {}, 420, 0), {}, <<>>, <<>>, 0)

\* A page that rendered nothing: no title, a body of white space only.
BlankPage ==
    Page("/empty", EmptyText, EmptyText, <<>>, <<>>, Text({}, {}, 0, 600), {}, <<>>, <<>>, 0)

\* A Japanese dental clinic home page; three questions, no sitemap link.
HomeJa ==
    Page("/inpuranto", Short({"sumairu-shika-kurinikku", "inpuranto"}, 20, 0),
         Short({}, 40, 0),
         << {"inpuranto"} >>, << {"genin"}, {"shoujou"}, {"chiryou"} >>,
         Text({"inpuranto", "genin", "shoujou", "chiryou", "fukusayou", "senmoni", "denwa",
               "03-5550-0100"}, {"inpuranto"}, 1000, 30),
         {"canonical", "viewport", "og"}, <<"Dentist">>,
         <<"/", "/a", "/b", "/c", "/d", "/e">>, 3)

\* The pages of a ten-page clinic site, every one valid (a body of 400
\* characters or more) and with canonical and viewport tags; none links to a
\* sitemap. The home page: the hospital name in its title (미소의원, which
\* contains the medical keyword 의원), treatment and side-effect vocabulary.
ScenarioHome ==
    Page("/", Short({"miso-uiwon"}, 12, 0), Short({}, 40, 0),
         << {"miso-uiwon"} >>, << {"jillyo"} >>,
         Text({"chiryo", "bujagyong"}, {}, 600, 20),
         {"canonical", "viewport"}, <<>>, <<"/impeullanteu", "/faq", "/notice">>, 0)

\* A treatment page: a medical keyword (시술) and risk vocabulary (주의사항, 회복).
ScenarioCare ==
    Page("/impeullanteu", Short({"impeullanteu"}, 10, 0), Short({}, 36, 0),
         << {"impeullanteu"} >>, << {"sisul"}, {"juuisahang"} >>,
         Text({"impeullanteu", "sisul", "juuisahang", "hoebok"}, {"impeullanteu"}, 950, 30),
         {"canonical", "viewport"}, <<>>, <<"/">>, 0)

\* A booking page: the keyword in its title and H1, a medical keyword (예약),
\* no risk vocabulary; not a strong-signal page.
ScenarioService ==
    Page("/yeyak", Short({"impeullanteu", "yeyak"}, 14, 1), Short({}, 20, 0),
         << {"impeullanteu"} >>, <<>>,
         Text({"yeyak"}, {}, 480, 10),
         {"canonical", "viewport", "og"}, <<>>, <<"/">>, 0)

\* A notice page (공지): no medical keyword, no risk vocabulary.
ScenarioInfo ==
    Page("/notice", Short({"gongji"}, 4, 0), EmptyText,
         << {"gongji"} >>, <<>>,
         Text({"gongji"}, {}, 420, 0),
         {"canonical", "viewport"}, <<>>, <<"/">>, 0)

\* The question page (질문): a FAQPage schema type and four questions.
ScenarioFaq ==
    Page("/faq", Short({"jilmun"}, 9, 2), Short({}, 32, 0),
         << {"jilmun"} >>, <<>>,
         Text({"jilmun", "wonin"}, {}, 700, 16),
         {"canonical", "viewport"}, <<"FAQPage">>, <<"/">>, 4)

\* A product page (제품, 결제) of the same site.
ScenarioShop ==
    Page("/shop", Short({"jepum"}, 6, 0), EmptyText,
         << {"jepum"} >>, <<>>,
         Text({"jepum", "gyeolje"}, {}, 500, 0),
         {"canonical", "viewport"}, <<>>, <<"/">>, 0)

\* The pages crawled after the home page, in the order the lists group them.
ScenarioPool == <<ScenarioCare, ScenarioService, ScenarioInfo, ScenarioFaq, ScenarioShop>>

PagePool == {HomeKo, FaqKo, CareKo, ContactKo, ShopKo, RecruitKo, BlankPage, HomeJa}

\* The pages handed to classifySite on its own: a clinic page with every
\* signal, a page with medical vocabulary only, two non-hospital pages and
\* a page that is not valid for classification.
SitePool == {HomeKo, CareKo, ShopKo, RecruitKo, BlankPage}

\* Request bodies: a Korean request, a Japanese request, and a request with
\* the optional fields left empty ((keywords || '').split(',') is ['']).
Requests ==
    { [hospitalName |-> "miso-uiwon", keywords |-> <<" impeullanteu", " ">>, locale |-> "ko"],
      [hospitalName |-> "sumairu-shika", keywords |-> <<"inpuranto">>, locale |-> "ja"],
      [hospitalName |-> "", keywords |-> <<"">>, locale |-> "ko"] }

----------------------------------------------------------------------------
(* calculateScore applied to every page list and request.                  *)

Init ==
    /\ pages = <<>>
    /\ input \in Requests
    /\ returned = <<>>
    /\ classified = <<>>
    /\ pc = "request"
    /\ scoreResult = <<>>
    /\ aiCalls = <<>>
    /\ events = <<>>
    /\ fnArgs = <<>>
    /\ fnResult = <<>>

\* One more page joins the list the functions are applied to.
AddPage(p) ==
    /\ returned = <<>>
    /\ Len(pages) < MaxPages /\ Len(pages) < CrawlLimit
    /\ pages' = Append(pages, p)
    /\ UNCHANGED <<input, returned, classified, pc, scoreResult, aiCalls, events, fnArgs, fnResult>>

CallCalculateScore ==
    /\ returned = <<>>
    /\ returned' = <<calculateScore(pages, input)>>
    /\ UNCHANGED <<pages, input, classified, pc, scoreResult, aiCalls, events, fnArgs, fnResult>>

Next ==
    \/ \E p \in PagePool : AddPage(p)
    \/ CallCalculateScore

Spec == Init /\ [][Next]_vars

----------------------------------------------------------------------------
(* classifySite applied to every page list and locale.                     *)

AddSitePage(p) ==
    /\ classified = <<>>
    /\ Len(pages) < MaxSitePages /\ Len(pages) < CrawlLimit
    /\ pages' = Append(pages, p)
    /\ UNCHANGED <<input, returned, classified, pc, scoreResult, aiCalls, events, fnArgs, fnResult>>

CallClassifySite ==
    /\ classified = <<>>
    /\ classified' = <<classifySite(pages, input.locale)>>
    /\ UNCHANGED <<pages, input, returned, pc, scoreResult, aiCalls, events, fnArgs, fnResult>>

NextClassify ==
    \/ \E p \in SitePool : AddSitePage(p)
    \/ CallClassifySite

SpecClassify == Init /\ [][NextClassify]_vars

----------------------------------------------------------------------------
(* classifySite and calculateScore applied to the crawl of a clinic site   *)
(* of up to CrawlLimit pages.                                              *)

\* The position of a page's kind in ScenarioPool (0 for the home page).
KindOf(p) == IF p = ScenarioHome THEN 0 ELSE CHOOSE k \in DOMAIN ScenarioPool : ScenarioPool[k] = p

\* The crawl returns one more page: the home page first, then the pages of
\* the site grouped by kind (neither function reads a page's position).
AddScenarioPage(p) ==
    /\ returned = <<>> /\ classified = <<>>
    /\ Len(pages) < CrawlLimit
    /\ IF pages = <<>> THEN p = ScenarioHome
       ELSE p # ScenarioHome /\ KindOf(pages[Len(pages)]) <= KindOf(p)
    /\ pages' = Append(pages, p)
    /\ UNCHANGED <<input, returned, classified, pc, scoreResult, aiCalls, events, fnArgs, fnResult>>

NextScenario ==
    \/ \E p \in {ScenarioHome} \cup {ScenarioPool[k] : k \in DOMAIN ScenarioPool} : AddScenarioPage(p)
    \/ CallClassifySite
    \/ CallCalculateScore

SpecScenario == Init /\ [][NextScenario]_vars

----------------------------------------------------------------------------
(* pickFourChecks applied to lists of six candidates.                      *)

\* The keys of the six candidates, in list order.
CandidateKeys == <<"k1", "k2", "k3", "k4", "k5", "k6">>

\* What a candidate carries besides its key: ok, weight and coverage.
CandidateAttributes ==
    [ok : BOOLEAN, weight : {2, 3}, coverage : {[num |-> 1, den |-> 10], [num |-> 5, den |-> 10]}]

\* The lists of six candidates, one per key.
CandidateLists ==
    { [i \in DOMAIN CandidateKeys |->
          [key |-> CandidateKeys[i], label |-> CandidateKeys[i], ok |-> f[i].ok,
           weight |-> f[i].weight, coverage |-> f[i].coverage]] :
      f \in [DOMAIN CandidateKeys -> CandidateAttributes] }

\* No request is in flight: a helper function is applied on its own.
NoRequest ==
    /\ pages = <<>> /\ input = <<>> /\ returned = <<>> /\ classified = <<>>
    /\ pc = "request" /\ scoreResult = <<>> /\ aiCalls = <<>> /\ events = <<>>

InitPick == NoRequest /\ fnArgs \in CandidateLists /\ fnResult = <<>>

CallPickFourChecks ==
    /\ fnResult = <<>>
    /\ fnResult' = <<pickFourChecks(fnArgs)>>
    /\ UNCHANGED <<pages, input, returned, classified, pc, scoreResult, aiCalls, events, fnArgs>>

NextPick == CallPickFourChecks

SpecPick == InitPick /\ [][NextPick]_vars

----------------------------------------------------------------------------
(* The confidence adjustment applied to a raw category score under every   *)
(* valid-page ratio of a crawl of up to CrawlLimit pages.                  *)

\* The factors (tenths) scoreByCoverage can apply to a check.
FactorChoices(c) ==
    { scoreFactor([pagesAnalyzed |-> t[1], observedPages |-> t[2], strongObservedPages |-> t[3],
                   basePoints |-> c.basePoints, minCoverage |-> c.minCoverage]) :
      t \in {u \in (1..CrawlLimit) \X (0..CrawlLimit) \X (0..CrawlLimit) :
                u[2] <= u[1] /\ u[3] <= u[2]} }

\* The factors of the checks of a category, in evaluation order.
FactorSequencesAmong(choices) ==
    {f \in [DOMAIN choices -> {0, 4, 7, 10}] : \A k \in DOMAIN f : f[k] \in choices[k]}

FactorSequences(cat) ==
    FactorSequencesAmong([k \in DOMAIN ChecksOf(cat) |-> FactorChoices(ChecksOf(cat)[k])])

\* The sum (tenths) of basePoints * factor over the first k checks.
RECURSIVE PointsOf(_, _, _)
PointsOf(cat, f, k) ==
    IF k = 0 THEN 0 ELSE PointsOf(cat, f, k - 1) + ChecksOf(cat)[k].basePoints * f[k]

\* The raw scores a category can have when the confidence adjustment reads
\* it: a clamped sum of check points, or the value of a category cap; with
\* each, whether its double is under the exact decimal value.
RawScores ==
    UNION { { [raw |-> clamp(PointsOf(cat, f, Len(ChecksOf(cat))), 0, 200),
               below |-> /\ <<cat, f>> \in DoubleSumBelowExact
                         /\ PointsOf(cat, f, Len(ChecksOf(cat))) <= 200] :
              f \in FactorSequences(cat) } :
            cat \in {"relevance", "structure", "indexing", "trust", "faq_schema"} }
    \cup {[raw |-> 140, below |-> FALSE]}

InitConfidence == NoRequest /\ fnArgs \in RawScores /\ fnResult = <<>>

\* clamp(Math.round(raw * confidenceFactor), 0, 20) for every validRatio
\* validPagesCount / pagesAnalyzed of at most CrawlLimit pages.
CallConfidenceAdjustment ==
    /\ fnResult = <<>>
    /\ fnResult' = << [pagesAnalyzed \in 1..CrawlLimit |->
                         [validPagesCount \in 0..pagesAnalyzed |->
                             ConfidenceScaled(fnArgs.raw, fnArgs.below, validPagesCount,
                                              pagesAnalyzed)]] >>
    /\ UNCHANGED <<pages, input, returned, classified, pc, scoreResult, aiCalls, events, fnArgs>>

NextConfidence == CallConfidenceAdjustment

SpecConfidence == InitConfidence /\ [][NextConfidence]_vars

----------------------------------------------------------------------------
(* scoreByCoverage applied to the counts of a crawl of up to CrawlLimit    *)
(* pages.                                                                  *)

\* The arguments calculateScore can pass: the page count, the pages on which
\* the predicate was observed, those of them that are strong pages, the base
\* points of a check and the minCoverage gates in use (none, 0.3, 0.5).
ScoreByCoverageArgs ==
    { a \in [pagesAnalyzed : 0..CrawlLimit, observedPages : 0..CrawlLimit,
              strongObservedPages : 0..CrawlLimit, basePoints : {2, 7},
              minCoverage : {<<>>, <<30>>, <<50>>}] :
        a.observedPages <= a.pagesAnalyzed /\ a.strongObservedPages <= a.observedPages }

InitCoverage == NoRequest /\ fnArgs \in ScoreByCoverageArgs /\ fnResult = <<>>

CallScoreByCoverage ==
    /\ fnResult = <<>>
    /\ fnResult' = <<scoreByCoverage(fnArgs)>>
    /\ UNCHANGED <<pages, input, returned, classified, pc, scoreResult, aiCalls, events, fnArgs>>

NextCoverage == CallScoreByCoverage

SpecCoverage == InitCoverage /\ [][NextCoverage]_vars

----------------------------------------------------------------------------
(* POST /api/analyze: one request, streamed as newline-delimited events.   *)

\* The penalty rounded to the nearest integer: Math.round(c * 0.85).
RoundPenalty(c) == (c * 85 + 50) \div 100

\* Math.floor(c * 0.85) for a category score c in 0..20
FloorPenalty(c) == (c * 85) \div 100

applyUncertainPenalty(score) ==
    LET categories ==
            [ relevance |-> FloorPenalty(score.categories.relevance),
              structure |-> FloorPenalty(score.categories.structure),
              indexing |-> FloorPenalty(score.categories.indexing),
              trust |-> FloorPenalty(score.categories.trust),
              faq_schema |-> FloorPenalty(score.categories.faq_schema) ]
    IN  [score EXCEPT !.total = SumCategories(categories), !.categories = categories]

\* sendEvent({ type: 'progress', value, step })
Progress(value, step) == [type |-> "progress", value |-> value, step |-> step]

\* sendEvent({ type: 'progress', value: 50, step: 'Scoring', pagesCount })
Progress50(pagesCount) ==
    [type |-> "progress", value |-> 50, step |-> "Scoring", pagesCount |-> pagesCount]

\* sendEvent({ type: 'error', message })
ErrorEvent(message) == [type |-> "error", message |-> message]

\* The message thrown for an empty crawl, by locale.
EmptyCrawlMessage(locale) == IF locale = "ja" THEN "no pages (ja)" ELSE "no pages (ko)"

\* The narrative left unset: aiReport = null, aiMeta = skipped.
SkippedReport == [report |-> <<>>, meta |-> [status |-> "skipped"]]

\* What generateAIReport resolves to: the generated report with status ok, or
\* the locale's fallback report with status missing_key or error.
AIOutcomes == {"ok", "missing_key", "error"}

generateAIReport(outcome, locale) ==
    [ report |-> IF outcome = "ok" THEN <<"generated">> ELSE << <<"fallback", locale>> >>,
      meta |-> [status |-> outcome] ]

\* finalResult and the closing event
Complete(score, ai, ps, siteClassification) ==
    [ type |-> "complete",
      result |-> [ score |-> score, ai |-> ai.report, aiMeta |-> ai.meta,
                   pagesAnalyzed |-> Len(ps), siteClassification |-> siteClassification ] ]

\* The page lists crawlSite(url, 10) can resolve to.
PageLists == UNION {[1..n -> PagePool] : n \in 0..Min(MaxPages, CrawlLimit)}

\* The body parses; progress 10 is sent and the crawl is awaited.
ReadBody ==
    /\ pc = "request"
    /\ events' = Append(events, Progress(10, "Crawling"))
    /\ pc' = "crawling"
    /\ UNCHANGED <<pages, input, returned, classified, scoreResult, aiCalls, fnArgs, fnResult>>

\* req.json() rejects: the catch block sends the error event and closes.
ReadBodyRejects ==
    /\ pc = "request"
    /\ events' = Append(events, ErrorEvent("Analysis failed"))
    /\ pc' = "closed"
    /\ UNCHANGED <<pages, input, returned, classified, scoreResult, aiCalls, fnArgs, fnResult>>

\* crawlSite rejects: the catch block sends the error event and closes.
CrawlRejects ==
    /\ pc = "crawling"
    /\ events' = Append(events, ErrorEvent("Analysis failed"))
    /\ pc' = "closed"
    /\ UNCHANGED <<pages, input, returned, classified, scoreResult, aiCalls, fnArgs, fnResult>>

\* The handler calling generateAIReport whatever the level.
ScoredAlwaysNarrates(ps, siteClassification, score, final) ==
    /\ classified' = <<siteClassification>>
    /\ returned' = <<score>>
    /\ scoreResult' = <<final>>
    /\ aiCalls' = Append(aiCalls, [score |-> final, pages |-> Len(ps), locale |-> input.locale])
    /\ events' = events \o << Progress50(Len(ps)), Progress(70, "AI Analysis") >>
    /\ pc' = "ai"

\* From the crawl's pages to the next await: progress 50, classification,
\* score (final: after the uncertain penalty), progress 70, then the call
\* of generateAIReport, or, when it is skipped, the rest of the handler.
Scored(ps, siteClassification, score, final) ==
    /\ classified' = <<siteClassification>>
    /\ returned' = <<score>>
    /\ scoreResult' = <<final>>
    /\ IF siteClassification.level # "no"
       THEN /\ aiCalls' = Append(aiCalls, [score |-> final, pages |-> Len(ps),
                                            locale |-> input.locale])
            /\ events' = events \o << Progress50(Len(ps)), Progress(70, "AI Analysis") >>
            /\ pc' = "ai"
       ELSE /\ aiCalls' = aiCalls
            /\ events' = events \o << Progress50(Len(ps)), Progress(70, "AI Analysis"),
                                      Progress(90, "Finalizing"),
                                      Complete(final, SkippedReport, ps, siteClassification) >>
            /\ pc' = "closed"

\* The handler sending progress 50 before it looks at the page count.
CrawlResolvesProgressBeforeCheck(ps) ==
    /\ pc = "crawling"
    /\ pages' = ps
    /\ IF Len(ps) = 0
       THEN /\ events' = events \o << Progress50(Len(ps)),
                                      ErrorEvent(EmptyCrawlMessage(input.locale)) >>
            /\ pc' = "closed"
            /\ UNCHANGED <<returned, classified, scoreResult, aiCalls>>
       ELSE \E siteClassification \in {classifySite(ps, input.locale)},
               score \in {calculateScore(ps, input)} :
                Scored(ps, siteClassification, score,
                       IF siteClassification.level = "uncertain"
                       THEN applyUncertainPenalty(score) ELSE score)
    /\ UNCHANGED <<input, fnArgs, fnResult>>

\* crawlSite resolves to ps: the handler runs to its next await, which is
\* the call of generateAIReport, or to the end when that call is skipped.
CrawlResolves(ps) ==
    /\ pc = "crawling"
    /\ pages' = ps
    /\ IF Len(ps) = 0
       THEN /\ events' = Append(events, ErrorEvent(EmptyCrawlMessage(input.locale)))
            /\ pc' = "closed"
            /\ UNCHANGED <<returned, classified, scoreResult, aiCalls>>
       ELSE \E siteClassification \in {classifySite(ps, input.locale)},
               score \in {calculateScore(ps, input)} :
                Scored(ps, siteClassification, score,
                       IF siteClassification.level = "uncertain"
                       THEN applyUncertainPenalty(score) ELSE score)
    /\ UNCHANGED <<input, fnArgs, fnResult>>

\* generateAIReport resolves: progress 90, the complete event, close.
AIResolves(outcome) ==
    /\ pc = "ai"
    /\ events' = events \o << Progress(90, "Finalizing"),
                              Complete(scoreResult[1], generateAIReport(outcome, input.locale),
                                       pages, classified[1]) >>
    /\ pc' = "closed"
    /\ UNCHANGED <<pages, input, returned, classified, scoreResult, aiCalls, fnArgs, fnResult>>

NextPost ==
    \/ ReadBody
    \/ ReadBodyRejects
    \/ CrawlRejects
    \/ \E ps \in PageLists : CrawlResolves(ps)
    \/ \E outcome \in AIOutcomes : AIResolves(outcome)

SpecPost == Init /\ [][NextPost]_vars

----------------------------------------------------------------------------
(* Properties of calculateScore (under Spec).                              *)

CategoryNames == {"relevance", "structure", "indexing", "trust", "faq_schema"}

\* The cap `key` is set to `value` in the details of a result.
HasCap(result, key, value) ==
    /\ "caps" \in DOMAIN result.details
    /\ key \in DOMAIN result.details.caps
    /\ result.details.caps[key] = value

\* No valid page has a canonical tag; no page URL or internal link matches
\* 'sitemap'.
NoCanonicalNoSitemap ==
    /\ \A i \in validPagesOf(pages) : ~pages[i].hasCanonical
    /\ \A i \in DOMAIN pages :
           /\ ~MatchesSitemap(pages[i].url)
           /\ \A j \in DOMAIN pages[i].internalLinks : ~MatchesSitemap(pages[i].internalLinks[j])

\* No valid page contains risk / side-effect vocabulary.
NoRiskVocabulary == \A i \in validPagesOf(pages) : ~pageHasRiskInfo(pages[i], input)

\* The FAQ counts of the valid pages sum to less than 3 and no valid page
\* has a FAQ-pattern schema type.
FewFaqNoFaqSchema ==
    /\ SumFaq(pages, validPagesOf(pages)) < 3
    /\ \A i \in validPagesOf(pages) : ~pageHasFaqSchema(pages[i])

\* The categories after confidence scaling and the second application of
\* the category caps, before the total cap.
AfterScaling == ScaledCategories(Context(pages, input), CapsOf(Context(pages, input)))

\* C1: for every non-empty page list whose valid pages' FAQ counts sum to
\* less than 3 and none of whose valid pages has a FAQ-pattern schema type,
\* the total calculateScore returns is at most 80. Refuted: the rescale
\* rounds each category, and the rounded categories can sum to more than 80.
C1_TotalAtMost80 ==
    (returned # <<>> /\ Len(pages) > 0 /\ FewFaqNoFaqSchema) => returned[1].total <= 80

\* C2: for every input, each returned category is an integer in 0..20 and
\* the returned total is an integer in 0..100.
C2_ScoresInRange ==
    returned # <<>> =>
        /\ \A k \in CategoryNames : returned[1].categories[k] \in 0..20
        /\ returned[1].total \in 0..100

\* A result whose relevance points exceeded 20 before the clamp.
C2_RelevanceClamped ==
    /\ returned # <<>> /\ Len(pages) > 0
    /\ SumPoints(Context(pages, input), ChecksOf("relevance")) > 200
    /\ returned[1].categories.relevance = 20

\* C3: the returned total is the sum of the five returned categories, also
\* when the total cap rescaled the categories.
C3_TotalIsSum ==
    returned # <<>> =>
        returned[1].total = returned[1].categories.relevance + returned[1].categories.structure
                            + returned[1].categories.indexing + returned[1].categories.trust
                            + returned[1].categories.faq_schema

\* A result the total cap rescaled: the cap is set and the scaled categories
\* summed to more than 80.
C3_Rescaled ==
    /\ returned # <<>> /\ Len(pages) > 0
    /\ HasCap(returned[1], "totalCap", 80)
    /\ SumCategories(AfterScaling) > 80
    /\ returned[1].categories # AfterScaling

\* C4 (as amended): for every non-empty page list in which no valid page
\* has a canonical tag and no page URL or internal link matches 'sitemap',
\* calculateScore sets indexingCap = 14 and indexing is at most 14 after
\* confidence scaling and in the returned categories.
C4_IndexingCapOnNonEmptyList ==
    (returned # <<>> /\ Len(pages) > 0 /\ NoCanonicalNoSitemap) =>
        /\ HasCap(returned[1], "indexingCap", 14)
        /\ AfterScaling.indexing <= 14
        /\ returned[1].categories.indexing <= 14

\* C4 as stated, for every page list, the empty one included.
C4_IndexingCapOnEveryList ==
    (returned # <<>> /\ NoCanonicalNoSitemap) =>
        /\ HasCap(returned[1], "indexingCap", 14)
        /\ returned[1].categories.indexing <= 14

\* A scored list with valid pages, none with a canonical tag, and no sitemap.
C4_IndexingCapped ==
    /\ returned # <<>> /\ validPagesOf(pages) # {} /\ NoCanonicalNoSitemap
    /\ HasCap(returned[1], "indexingCap", 14)
    /\ returned[1].categories.indexing > 0

\* C5 (as amended): for every non-empty page list in which no valid page
\* contains risk vocabulary, calculateScore sets trustCap = 14 and trust is
\* at most 14 after confidence scaling and in the returned categories.
C5_TrustCapOnNonEmptyList ==
    (returned # <<>> /\ Len(pages) > 0 /\ NoRiskVocabulary) =>
        /\ HasCap(returned[1], "trustCap", 14)
        /\ AfterScaling.trust <= 14
        /\ returned[1].categories.trust <= 14

\* C5 as stated, for every page list, the empty one included.
C5_TrustCapOnEveryList ==
    (returned # <<>> /\ NoRiskVocabulary) =>
        /\ HasCap(returned[1], "trustCap", 14)
        /\ returned[1].categories.trust <= 14

\* A scored list with valid pages, none with risk vocabulary.
C5_TrustCapped ==
    /\ returned # <<>> /\ validPagesOf(pages) # {} /\ NoRiskVocabulary
    /\ HasCap(returned[1], "trustCap", 14)
    /\ returned[1].categories.trust > 0

\* C6: for the empty page list calculateScore returns exactly the
\* zero-result: total 0, every category 0, the single signal
\* "No pages analyzed", every metric 0, and nothing else.
C6_EmptyListZeroResult ==
    (returned # <<>> /\ pages = <<>>) =>
        returned[1] =
            [ total |-> 0,
              categories |-> [relevance |-> 0, structure |-> 0, indexing |-> 0, trust |-> 0,
                              faq_schema |-> 0],
              details |-> [ signals |-> << <<"No pages analyzed">> >>,
                            metrics |-> [pagesAnalyzed |-> 0, validPages |-> 0,
                                         validRatio |-> 0, strongPages |-> 0] ] ]

\* calculateScore has returned for the empty page list.
C6_EmptyListScored == returned # <<>> /\ pages = <<>> /\ returned[1].total = 0

----------------------------------------------------------------------------
(* Properties of classifySite (under SpecClassify).                        *)

\* The pages valid for classification.
ValidForClassification == {i \in DOMAIN pages : isValidPageForClassification(pages[i])}

\* The number of valid pages whose combined text contains a word of `vocabulary`.
Coverage(vocabulary) ==
    Cardinality({i \in ValidForClassification : containsAny(combinedText(pages[i]), vocabulary)})

\* (C): a valid page has a medical schema type, or a LocalBusiness or
\* Organization type together with a medical keyword.
MedicalSchemaSignal ==
    \E i \in ValidForClassification :
        SchemaHit(pages[i]) \/ OrgOrLocalWithMedical(pages[i], input.locale)

\* No valid page matches a keyword of the three vocabularies, and no schema
\* signal: the evidence score is 0.
NoEvidence ==
    /\ Coverage(medicalKeywords(input.locale)) = 0
    /\ Coverage(structureKeywords(input.locale)) = 0
    /\ Coverage(nonHospitalCore(input.locale)) = 0
    /\ ~MedicalSchemaSignal

\* C7: classifySite never returns level "no" with fewer than 3 valid pages;
\* a site of fewer than 3 valid pages with no matched keyword (score 0), the
\* empty page list included, yields level "uncertain" with evidenceScore 0.
C7_NoNeedsThreeValidPages ==
    classified # <<>> =>
        /\ Cardinality(ValidForClassification) < 3 => classified[1].level # "no"
        /\ (Cardinality(ValidForClassification) < 3 /\ NoEvidence) =>
               classified[1].level = "uncertain" /\ classified[1].evidenceScore = 0

\* A classified site of exactly two valid pages with no matched keyword.
C7_TwoValidPagesNoKeyword ==
    /\ classified # <<>>
    /\ Cardinality(ValidForClassification) = 2 /\ NoEvidence
    /\ classified[1].level = "uncertain"

\* C8: evidenceScore is in 0..10; level is "yes" exactly when it is at
\* least 6, "uncertain" exactly when it is 4 or 5 or it is under 4 with fewer
\* than 3 valid pages, "no" otherwise; isHospital exactly when level is "yes".
C8_LevelFromScore ==
    classified # <<>> =>
        LET score == classified[1].evidenceScore
            level == classified[1].level
            few == Cardinality(ValidForClassification) < 3
        IN  /\ score \in 0..10
            /\ level \in {"yes", "uncertain", "no"}
            /\ level = "yes" <=> score >= 6
            /\ level = "uncertain" <=> (score \in {4, 5} \/ (score < 4 /\ few))
            /\ level = "no" <=> (score < 4 /\ ~few)
            /\ classified[1].isHospital <=> level = "yes"

\* A site classified "uncertain" on a score of 5 with three or more valid pages.
C8_UncertainAtFive ==
    /\ classified # <<>>
    /\ classified[1].evidenceScore = 5 /\ classified[1].level = "uncertain"
    /\ Cardinality(ValidForClassification) >= 3

\* C9: evidenceScore = clamp(A + B + C + D + E, 0, 10): A is 6 / 4 / 2 / 0
\* for medical coverage >= 5 / >= 3 / >= 1 / 0; B is 2 / 1 / 0 for structure
\* coverage >= 3 / >= 1 / 0; C is 3 for a medical schema signal; D is 1 for
\* medical coverage >= 3; E is -2 for non-hospital coverage >= 2.
C9_EvidenceScoreFormula ==
    classified # <<>> =>
        LET medical == Coverage(medicalKeywords(input.locale))
            structure == Coverage(structureKeywords(input.locale))
            nonHospital == Coverage(nonHospitalCore(input.locale))
            A == IF medical >= 5 THEN 6 ELSE IF medical >= 3 THEN 4
                 ELSE IF medical >= 1 THEN 2 ELSE 0
            B == IF structure >= 3 THEN 2 ELSE IF structure >= 1 THEN 1 ELSE 0
            C == IF MedicalSchemaSignal THEN 3 ELSE 0
            D == IF medical >= 3 THEN 1 ELSE 0
            E == IF nonHospital >= 2 THEN -2 ELSE 0
            sum == A + B + C + D + E
        IN  classified[1].evidenceScore = IF sum < 0 THEN 0 ELSE IF sum > 10 THEN 10 ELSE sum

\* A site whose five parts sum to 12 (6 + 2 + 3 + 1 + 0), scored 10.
C9_ClampedAtTen ==
    /\ classified # <<>>
    /\ Coverage(medicalKeywords(input.locale)) >= 5
    /\ Coverage(structureKeywords(input.locale)) >= 3
    /\ MedicalSchemaSignal
    /\ Coverage(nonHospitalCore(input.locale)) < 2
    /\ classified[1].evidenceScore = 10

----------------------------------------------------------------------------
(* Properties of POST /api/analyze (under SpecPost).                       *)

\* C10: when classifySite returns level "no", generateAIReport is never
\* invoked: the run ends with the complete event carrying ai = null and
\* aiMeta.status = 'skipped', and the score in it is the one calculateScore
\* returned, unchanged.
C10_NoLevelSkipsNarrative ==
    (classified # <<>> /\ classified[1].level = "no") =>
        /\ aiCalls = <<>>
        /\ pc = "closed"
        /\ events[Len(events)].type = "complete"
        /\ events[Len(events)].result.ai = <<>>
        /\ events[Len(events)].result.aiMeta.status = "skipped"
        /\ events[Len(events)].result.score = calculateScore(pages, input)

\* A run classified "no" that completed with a score above zero.
C10_NoLevelCompleted ==
    /\ classified # <<>> /\ classified[1].level = "no"
    /\ events # <<>> /\ events[Len(events)].type = "complete"
    /\ events[Len(events)].result.score.total > 0

\* The categories of a score, each replaced by floor(0.85 * c).
Dampened(categories) == [k \in CategoryNames |-> (85 * categories[k]) \div 100]

\* The score the handler holds after the classification: the categories
\* dampened and summed when the level is "uncertain", the score as
\* calculateScore returned it otherwise.
Delivers(delivered, score, level) ==
    IF level = "uncertain"
    THEN /\ \A k \in CategoryNames : delivered.categories[k] = Dampened(score.categories)[k]
         /\ delivered.total = Dampened(score.categories).relevance
                              + Dampened(score.categories).structure
                              + Dampened(score.categories).indexing
                              + Dampened(score.categories).trust
                              + Dampened(score.categories).faq_schema
         /\ delivered.details = score.details
    ELSE delivered = score

\* C11: when classifySite returns level "uncertain", the score passed to
\* generateAIReport and the score of the complete event have each category c
\* replaced by floor(0.85 * c) and the total replaced by the sum of the five
\* dampened categories; when the level is "yes" both are exactly what
\* calculateScore returned. In both cases generateAIReport is called.
C11_UncertainDampensYesKeeps ==
    (classified # <<>> /\ classified[1].level \in {"uncertain", "yes"}) =>
        \A score \in {calculateScore(pages, input)} :
            /\ Len(aiCalls) = 1
            /\ Delivers(aiCalls[1].score, score, classified[1].level)
            /\ \A i \in DOMAIN events :
                   events[i].type = "complete" =>
                       Delivers(events[i].result.score, score, classified[1].level)
            /\ pc = "closed" => events[Len(events)].type = "complete"

\* A run classified "uncertain" that completed: the delivered total is under
\* the one calculateScore returned, and a category's 0.85 * c has a
\* fractional part of a half or more.
C11_UncertainCompleted ==
    /\ classified # <<>> /\ classified[1].level = "uncertain"
    /\ pc = "closed" /\ events[Len(events)].type = "complete"
    /\ events[Len(events)].result.score.total < returned[1].total
    /\ \E k \in CategoryNames :
           (85 * returned[1].categories[k]) % 100 >= 50

----------------------------------------------------------------------------
(* The end-to-end scenario (under SpecScenario).                           *)

\* The pages containing both a medical keyword and risk vocabulary.
MedicalAndRiskPages ==
    {i \in DOMAIN pages :
        /\ containsAny(combinedText(pages[i]), medicalKeywords(input.locale))
        /\ pageHasRiskInfo(pages[i], input)}

\* The pages with a FAQPage schema type and four FAQ items.
FaqPages ==
    {i \in DOMAIN pages :
        /\ \E k \in DOMAIN pages[i].schemaTypes : pages[i].schemaTypes[k] = "FAQPage"
        /\ pages[i].faqCount = 4}

\* 10 pages, all valid, 6 containing both a medical keyword and risk
\* vocabulary, 1 with a FAQPage schema type and 4 FAQ items, every page with
\* canonical and viewport, the hospital name in the home page's title.
EndToEndScenario ==
    /\ Len(pages) = 10
    /\ validPagesOf(pages) = DOMAIN pages
    /\ Cardinality(MedicalAndRiskPages) = 6
    /\ Cardinality(FaqPages) = 1
    /\ \A i \in DOMAIN pages : pages[i].hasCanonical /\ pages[i].hasViewport
    /\ input.hospitalName # "" /\ IncludesWord(pages[1].title.words, input.hospitalName)

\* No schema type and no FAQ item outside the FAQ page, whose only schema
\* type is FAQPage.
NoOtherSchemaOrFaq ==
    /\ \A i \in DOMAIN pages \ FaqPages : pages[i].schemaTypes = <<>> /\ pages[i].faqCount = 0
    /\ \A i \in FaqPages : Len(pages[i].schemaTypes) = 1

\* The scenario's pages carry nothing it does not list: no other schema type
\* or FAQ item, no sitemap URL or link, and no non-hospital vocabulary.
OnlyListedFeatures ==
    /\ NoOtherSchemaOrFaq
    /\ ~hasSitemapProxy(pages)
    /\ \A i \in DOMAIN pages : ~containsAny(combinedText(pages[i]), nonHospitalCore(input.locale))

\* The points (tenths) the check on `pred` adds to faq_schema.
FaqSchemaPoints(pred) ==
    LET checks == ChecksOf("faq_schema")
        k == CHOOSE j \in DOMAIN checks : checks[j].pred = pred
    IN  scoreByCoverage(CheckArgs(Context(pages, input), checks[k]))

\* C12 (as amended): in the end-to-end scenario, with no schema type or FAQ
\* item on the other pages, the FAQ-schema check and the faq>=3 check hold
\* on 1 page of 10, so each contributes its base points times the coverage
\* factor 0.4 (3.2 and 0.8 points); the confidence factor is 1.0 and
\* faq_schema is 4.
C12_ScenarioFaqSchemaIsFour ==
    (returned # <<>> /\ EndToEndScenario /\ NoOtherSchemaOrFaq) =>
        /\ FaqSchemaPoints("faqSchema") = 32
        /\ FaqSchemaPoints("faq3") = 8
        /\ returned[1].details.metrics.validRatio = 1000
        /\ returned[1].categories.faq_schema = 4

\* C12 as stated: the full 8 points and 2 points, faq_schema = 10.
C12_ScenarioFaqSchemaIsTen ==
    (returned # <<>> /\ EndToEndScenario /\ NoOtherSchemaOrFaq) =>
        /\ FaqSchemaPoints("faqSchema") = 80
        /\ FaqSchemaPoints("faq3") = 20
        /\ returned[1].categories.faq_schema = 10

\* The scenario scored: the FAQ page is the only page with FAQ signals.
C12_ScenarioScored ==
    /\ returned # <<>> /\ EndToEndScenario /\ OnlyListedFeatures
    /\ Context(pages, input).observed["faqSchema"].observedPages = 1
    /\ Context(pages, input).observed["faq3"].observedPages = 1
    /\ returned[1].categories.faq_schema > 0

----------------------------------------------------------------------------
(* Properties of pickFourChecks (under SpecPick).                          *)

\* The positions in fnArgs of the failing (ok = FALSE) or passing candidates.
WithOk(ok) == {i \in DOMAIN fnArgs : fnArgs[i].ok = ok}

\* The coverage of candidate i is under that of candidate j.
CoverageLess(i, j) ==
    fnArgs[i].coverage.num * fnArgs[j].coverage.den
        < fnArgs[j].coverage.num * fnArgs[i].coverage.den

\* Candidate i comes strictly before candidate j: by weight descending, then
\* by coverage ascending among failing and descending among passing ones.
ComesBefore(i, j, failing) ==
    \/ fnArgs[i].weight > fnArgs[j].weight
    \/ /\ fnArgs[i].weight = fnArgs[j].weight
       /\ IF failing THEN CoverageLess(i, j) ELSE CoverageLess(j, i)

\* Items a and b are two of the candidates with the given ok, in order, and
\* no candidate left out comes before either of them.
TopTwo(a, b, failing) ==
    \E i, j \in WithOk(~failing) :
        /\ i # j
        /\ a = [key |-> fnArgs[i].key, ok |-> fnArgs[i].ok, label |-> fnArgs[i].label]
        /\ b = [key |-> fnArgs[j].key, ok |-> fnArgs[j].ok, label |-> fnArgs[j].label]
        /\ ~ComesBefore(j, i, failing)
        /\ \A e \in WithOk(~failing) \ {i, j} :
               ~ComesBefore(e, i, failing) /\ ~ComesBefore(e, j, failing)

\* C14: given 6 candidates with distinct keys of which 3 fail and 3 pass,
\* pickFourChecks returns exactly 4 items: the 2 failing candidates that come
\* first by (weight descending, coverage ascending), then the 2 passing
\* candidates that come first by (weight descending, coverage descending),
\* with no key repeated.
C14_TwoFailingThenTwoPassing ==
    (fnResult # <<>> /\ Len(fnArgs) = 6 /\ Cardinality(WithOk(FALSE)) = 3
       /\ Cardinality(WithOk(TRUE)) = 3) =>
        /\ Len(fnResult[1]) = 4
        /\ TopTwo(fnResult[1][1], fnResult[1][2], TRUE)
        /\ TopTwo(fnResult[1][3], fnResult[1][4], FALSE)
        /\ \A m, n \in 1..4 : m # n => fnResult[1][m].key # fnResult[1][n].key

\* Three failing and three passing candidates whose list order is not the
\* sorted one: the failing and the passing candidate that come first are
\* both last in the list.
C14_SortedOutOfListOrder ==
    /\ fnResult # <<>>
    /\ Cardinality(WithOk(FALSE)) = 3 /\ Cardinality(WithOk(TRUE)) = 3
    /\ fnResult[1][1].key = "k5" /\ ~fnArgs[5].ok
    /\ fnResult[1][3].key = "k6" /\ fnArgs[6].ok
    /\ \E i \in WithOk(TRUE) : fnArgs[i].weight = fnArgs[6].weight /\ ComesBefore(6, i, FALSE)

----------------------------------------------------------------------------
(* Properties of the confidence adjustment (under SpecConfidence).         *)

\* C15: for a fixed raw category score and any two valid-page ratios
\* r1 <= r2, clamp(round(raw * (0.65 + 0.35 * r1)), 0, 20) is at most
\* clamp(round(raw * (0.65 + 0.35 * r2)), 0, 20).
C15_ConfidenceMonotone ==
    fnResult # <<>> =>
        \A n1, n2 \in 1..CrawlLimit :
            \A v1 \in 0..n1, v2 \in 0..n2 :
                v1 * n2 <= v2 * n1 => fnResult[1][n1][v1] <= fnResult[1][n2][v2]

\* A raw score whose double is under the exact value, scaled to strictly
\* more when every page is valid than when none is.
C15_ScaledRisesWithRatio ==
    /\ fnResult # <<>> /\ fnArgs.below
    /\ fnResult[1][CrawlLimit][0] < fnResult[1][CrawlLimit][5]
    /\ fnResult[1][CrawlLimit][5] < fnResult[1][CrawlLimit][CrawlLimit]

----------------------------------------------------------------------------
(* Properties of scoreByCoverage (under SpecCoverage).                     *)

\* The coverage weightedObserved / pagesAnalyzed of the arguments is at
\* least tenths / 10.
CoverageAtLeast(tenths) ==
    10 * Min(2 * fnArgs.pagesAnalyzed, 2 * fnArgs.observedPages + fnArgs.strongObservedPages)
        >= tenths * 2 * fnArgs.pagesAnalyzed

\* The factor (tenths) applied to the base points of an ungated check.
AppliedFactor(tenths) == fnResult[1] = fnArgs.basePoints * tenths

\* C16: for a 10-page set with no strong-signal bonus the coverage factor
\* applied to a check is 1.0 when the predicate holds on exactly 5 pages, 0.7
\* on exactly 3, 0.4 on exactly 1 and 0 on none; in general it is 1.0 for
\* coverage >= 0.5, 0.7 for coverage in [0.3, 0.5), 0.4 for coverage in
\* [0.1, 0.3) and 0 below 0.1.
C16_CoverageFactorSteps ==
    (fnResult # <<>> /\ fnArgs.pagesAnalyzed > 0 /\ fnArgs.minCoverage = <<>>) =>
        /\ (fnArgs.pagesAnalyzed = 10 /\ fnArgs.strongObservedPages = 0) =>
               /\ fnArgs.observedPages = 5 => AppliedFactor(10)
               /\ fnArgs.observedPages = 3 => AppliedFactor(7)
               /\ fnArgs.observedPages = 1 => AppliedFactor(4)
               /\ fnArgs.observedPages = 0 => AppliedFactor(0)
        /\ CoverageAtLeast(5) => AppliedFactor(10)
        /\ (CoverageAtLeast(3) /\ ~CoverageAtLeast(5)) => AppliedFactor(7)
        /\ (CoverageAtLeast(1) /\ ~CoverageAtLeast(3)) => AppliedFactor(4)
        /\ ~CoverageAtLeast(1) => AppliedFactor(0)

\* A predicate observed on exactly 3 of 10 pages, none of them strong,
\* scored by an ungated check at 0.7 of its base points.
C16_ThreeOfTen ==
    /\ fnResult # <<>> /\ fnArgs.minCoverage = <<>>
    /\ fnArgs.pagesAnalyzed = 10 /\ fnArgs.observedPages = 3 /\ fnArgs.strongObservedPages = 0
    /\ fnResult[1] = 7 * fnArgs.basePoints

----------------------------------------------------------------------------
(* The sitemap check (under Spec).                                         *)

\* The points (tenths) the sitemap check adds to raw indexing.
SitemapPoints ==
    LET checks == ChecksOf("indexing")
        k == CHOOSE j \in DOMAIN checks : checks[j].pred = "sitemap"
    IN  scoreByCoverage(CheckArgs(Context(pages, input), checks[k]))

\* C17: whenever any page URL or internal link matches 'sitemap', the
\* sitemap check adds its 4 base points to raw indexing, however many pages
\* were analyzed. Refuted: the check goes through scoreByCoverage with
\* observedPages = 1, so it adds 4 * coverageFactor(1 / pagesAnalyzed).
C17_SitemapAddsFourPoints ==
    (returned # <<>> /\ Len(pages) > 0 /\ hasSitemapProxy(pages)) => SitemapPoints = 40

----------------------------------------------------------------------------
(* Page records with absent fields. PageData declares every field as       *)
(* required, but the records arrive as parsed JSON: a record is paired     *)
(* with the set of its fields that read as undefined.                      *)

OptionalFields ==
    {"h1", "h2", "schemaTypes", "internalLinks", "title", "description", "bodyText", "faqCount"}

TypeError == [error |-> "TypeError"]

\* What the guarded reads see: normalizeText(text || '') and (p.faqCount || 0).
\* An absent title prints as "undefined" in a template string, which no
\* vocabulary of the classifier or of isStrongSignalPage matches.
Guarded(r) ==
    [r.page EXCEPT !.title = IF "title" \in r.absent THEN EmptyText ELSE @,
                   !.description = IF "description" \in r.absent THEN EmptyText ELSE @,
                   !.bodyText = IF "bodyText" \in r.absent THEN EmptyText ELSE @,
                   !.faqCount = IF "faqCount" \in r.absent THEN 0 ELSE @]

GuardedPages(rs) == [i \in DOMAIN rs |-> Guarded(rs[i])]

\* classifySite: page.h1.length and page.h2.length are read for every page;
\* p.schemaTypes.some is read for the valid pages in order, until a page hits.
classifySiteRaises(rs, locale) ==
    \/ \E i \in DOMAIN rs : rs[i].absent \cap {"h1", "h2"} # {}
    \/ \E i \in DOMAIN rs :
          /\ isValidPageForClassification(Guarded(rs[i]))
          /\ "schemaTypes" \in rs[i].absent
          /\ \/ ~\E j \in 1..(i - 1) :
                    isValidPageForClassification(Guarded(rs[j])) /\ SchemaHit(rs[j].page)
             \/ ~\E j \in 1..(i - 1) :
                    /\ isValidPageForClassification(Guarded(rs[j]))
                    /\ OrgOrLocalWithMedical(Guarded(rs[j]), locale)

classifySiteOnRecords(rs, locale) ==
    IF classifySiteRaises(rs, locale) THEN TypeError ELSE classifySite(GuardedPages(rs), locale)

\* calculateScore: every valid page goes through page.h1.join, page.h2.join,
\* p.title.includes, p.internalLinks.length and page.schemaTypes.some; the
\* sitemap proxy reads p.internalLinks.some page by page, unless a URL matched.
calculateScoreRaises(rs) ==
    /\ Len(rs) > 0
    /\ \/ \E i \in DOMAIN rs :
              /\ isValidPage(Guarded(rs[i]))
              /\ rs[i].absent \cap {"h1", "h2", "title", "internalLinks", "schemaTypes"} # {}
       \/ /\ ~\E i \in DOMAIN rs : MatchesSitemap(rs[i].page.url)
          /\ \E i \in DOMAIN rs :
                 /\ "internalLinks" \in rs[i].absent
                 /\ ~\E j \in 1..(i - 1) :
                        \E k \in DOMAIN rs[j].page.internalLinks :
                            MatchesSitemap(rs[j].page.internalLinks[k])

calculateScoreOnRecords(rs, inp) ==
    IF calculateScoreRaises(rs) THEN TypeError ELSE calculateScore(GuardedPages(rs), inp)

MaxRecords == 2

RecordPool == {HomeKo, CareKo, BlankPage}

\* No field absent, one field absent, or all of them.
AbsentSets == {{}} \cup {{f} : f \in OptionalFields} \cup {OptionalFields}

Records == [page : RecordPool, absent : AbsentSets]

RecordLists == UNION {[1..n -> Records] : n \in 1..MaxRecords}

InitRecords == NoRequest /\ fnArgs \in RecordLists /\ fnResult = <<>>

CallClassifySiteOnRecords ==
    /\ fnResult = <<>>
    /\ \E locale \in {"ko", "ja"} :
           fnResult' = <<[fn |-> "classifySite", locale |-> locale,
                          outcome |-> classifySiteOnRecords(fnArgs, locale)]>>
    /\ UNCHANGED <<pages, input, returned, classified, pc, scoreResult, aiCalls, events, fnArgs>>

CallCalculateScoreOnRecords ==
    /\ fnResult = <<>>
    /\ \E inp \in Requests :
           fnResult' = <<[fn |-> "calculateScore", input |-> inp,
                          outcome |-> calculateScoreOnRecords(fnArgs, inp)]>>
    /\ UNCHANGED <<pages, input, returned, classified, pc, scoreResult, aiCalls, events, fnArgs>>

NextRecords ==
    \/ CallClassifySiteOnRecords
    \/ CallCalculateScoreOnRecords

SpecRecords == InitRecords /\ [][NextRecords]_vars

\* The record with every absent field at its zero value.
ZeroValued(r) ==
    [Guarded(r) EXCEPT !.h1 = IF "h1" \in r.absent THEN <<>> ELSE @,
                       !.h2 = IF "h2" \in r.absent THEN <<>> ELSE @,
                       !.schemaTypes = IF "schemaTypes" \in r.absent THEN <<>> ELSE @,
                       !.hasSchema = IF "schemaTypes" \in r.absent THEN FALSE ELSE @,
                       !.internalLinks = IF "internalLinks" \in r.absent THEN <<>> ELSE @]

\* C18: calculateScore and classifySite never raise for a page record whose
\* optional fields are absent; each absent field is treated as its zero value
\* (empty sequence, empty string, 0) and a result is returned.
C18_AbsentFieldsReadAsZero ==
    fnResult # <<>> /\ "fn" \in DOMAIN fnResult[1] =>
        LET zeroed == [i \in DOMAIN fnArgs |-> ZeroValued(fnArgs[i])]
        IN  /\ fnResult[1].outcome # TypeError
            /\ fnResult[1].fn = "classifySite" =>
                   fnResult[1].outcome = classifySite(zeroed, fnResult[1].locale)
            /\ fnResult[1].fn = "calculateScore" =>
                   fnResult[1].outcome = calculateScore(zeroed, fnResult[1].input)

\* The fields whose absence the code does survive: description, bodyText, faqCount.
GuardedFieldsNeverRaise ==
    fnResult # <<>> /\ (\A i \in DOMAIN fnArgs : fnArgs[i].absent \subseteq {"description", "bodyText", "faqCount"})
        => fnResult[1].outcome # TypeError

----------------------------------------------------------------------------
(* generateAIReport against the chat-completion service: the key lookup,   *)
(* the request in JSON mode, the retry without it, and the parse.          *)

\* process.env.OPENAI_API_KEY || process.env.NEXT_PUBLIC_OPENAI_API_KEY
getOpenAIApiKey(env) ==
    IF env.OPENAI_API_KEY # "" THEN env.OPENAI_API_KEY ELSE env.NEXT_PUBLIC_OPENAI_API_KEY

getFallbackReport(locale) ==
    [ overview_summary |-> IF locale = "ko" THEN "AI yoyak saengseong-i jehan" ELSE "AI youyaku no seisei ga seigen",
      overview_clinicai |-> "Clinic.ai",
      overview_priorities |-> "array",
      card_overviews |-> "object" ]

\* A JSON object as the service may write it: each key absent or with a value.
ReportObjects ==
    [ overview_summary : {"absent", "", "text"},
      overview_clinicai : {"absent", "text"},
      overview_priorities : {"absent", "text", "array"},
      card_overviews : {"absent", "object"} ]

NoObject ==
    [overview_summary |-> "absent", overview_clinicai |-> "absent",
     overview_priorities |-> "absent", card_overviews |-> "absent"]

\* A message content: an object, a JSON value that is no object (null, a
\* string), an object cut off before its closing brace, or plain words;
\* bare, inside prose, or inside prose that has braces of its own.
Contents ==
    [wrap : {"none", "prose", "braced"}, kind : {"object"}, value : ReportObjects]
        \cup [wrap : {"none", "prose", "braced"}, kind : {"scalar", "truncated", "words"},
              value : {NoObject}]

Thrown(message) == [throws |-> TRUE, message |-> message, value |-> NoObject]

Returned(value) == [throws |-> FALSE, message |-> "", value |-> value]

JSONparse(raw) ==
    IF raw.wrap = "none" /\ raw.kind \in {"object", "scalar"}
    THEN Returned(raw.value)
    ELSE Thrown("SyntaxError")

safeParseJsonReport(raw) ==
    IF JSONparse(raw).throws THEN JSONparse(raw)
    ELSE IF raw.kind # "object" THEN Thrown("Invalid JSON")
    ELSE IF \/ raw.value.overview_summary \in {"absent", ""}
            \/ raw.value.overview_clinicai = "absent"
            \/ raw.value.overview_priorities # "array"
            \/ raw.value.card_overviews = "absent"
         THEN Thrown("Missing fields in AI report")
         ELSE Returned(raw.value)

\* raw.indexOf('{') >= 0 and raw.lastIndexOf('}') after it
HasBraces(raw) == raw.wrap = "braced" \/ raw.kind = "object"

\* raw.slice(start, end + 1): prose without braces falls away
SliceBraces(raw) == IF raw.wrap = "prose" THEN [raw EXCEPT !.wrap = "none"] ELSE raw

tryParseJsonReport(raw) ==
    IF ~safeParseJsonReport(raw).throws THEN safeParseJsonReport(raw)
    ELSE IF HasBraces(raw) THEN safeParseJsonReport(SliceBraces(raw))
    ELSE Thrown("Invalid JSON")

\* What chat.completions.create may do: reject, or resolve with a first
\* choice carrying a content (possibly empty) and possibly a refusal.
Responses ==
    {[rejects |-> TRUE, content |-> <<>>, refusal |-> ""]}
        \cup [rejects : {FALSE}, content : {<<>>} \cup {<<c>> : c \in Contents},
              refusal : {"", "policy"}]

\* createOnce: the content if there is one, else an Error
createOnce(response) ==
    IF response.rejects THEN Thrown("request failed")
    ELSE IF response.content # <<>> THEN [throws |-> FALSE, message |-> "", value |-> response.content[1]]
    ELSE IF response.refusal # "" THEN Thrown("Refused")
    ELSE Thrown("No content")

Resolved(report, status) ==
    [type |-> "resolved", report |-> report, meta |-> [status |-> status]]

Rejected(message) ==
    [type |-> "rejected", report |-> NoObject, meta |-> [status |-> message]]

RequestSent(useResponseFormat, response) ==
    [type |-> "request", useResponseFormat |-> useResponseFormat, response |-> response]

\* The catch block of generateAIReport, were it around the parse alone.
CatchParseOnly(attempt, stage, locale) ==
    IF ~attempt.throws THEN Resolved(attempt.value, "ok")
    ELSE IF stage = "parse" THEN Resolved(getFallbackReport(locale), "error")
    ELSE Rejected(attempt.message)

\* The try block returning, or the catch block: whatever was thrown inside,
\* by a request or by the parse, ends in the fallback report.
Catch(attempt, stage, locale) ==
    IF attempt.throws
    THEN Resolved(getFallbackReport(locale), "error")
    ELSE Resolved(attempt.value, "ok")

Environments ==
    [OPENAI_API_KEY : {"", "sk-a"}, NEXT_PUBLIC_OPENAI_API_KEY : {"", "sk-b"}, locale : {"ko", "ja"}]

InitAI ==
    /\ pages = <<>> /\ input = <<>> /\ returned = <<>> /\ classified = <<>>
    /\ scoreResult = <<>> /\ aiCalls = <<>> /\ events = <<>>
    /\ pc = "generateAIReport"
    /\ fnArgs \in Environments
    /\ fnResult = <<>>

\* The key lookup: without a key the fallback is returned at once; with one
\* the first request, in JSON mode, is sent and awaited.
LookUpKey ==
    /\ pc = "generateAIReport"
    /\ IF getOpenAIApiKey(fnArgs) = ""
       THEN /\ fnResult' = <<Resolved(getFallbackReport(fnArgs.locale), "missing_key")>>
            /\ pc' = "settled"
       ELSE /\ fnResult' = <<>>
            /\ pc' = "createOnce(true)"
    /\ UNCHANGED <<pages, input, returned, classified, scoreResult, aiCalls, events, fnArgs>>

\* The first request settles; an unparsable content starts the retry.
FirstRequestSettles(response) ==
    /\ pc = "createOnce(true)"
    /\ LET sent == RequestSent(TRUE, response)
           content == createOnce(response)
       IN  IF content.throws
           THEN /\ fnResult' = <<sent, Catch(content, "request", fnArgs.locale)>>
                /\ pc' = "settled"
           ELSE IF tryParseJsonReport(content.value).throws
           THEN /\ fnResult' = <<sent>>
                /\ pc' = "createOnce(false)"
           ELSE /\ fnResult' = <<sent, Catch(tryParseJsonReport(content.value), "parse", fnArgs.locale)>>
                /\ pc' = "settled"
    /\ UNCHANGED <<pages, input, returned, classified, scoreResult, aiCalls, events, fnArgs>>

\* The retry settles.
RetrySettles(response) ==
    /\ pc = "createOnce(false)"
    /\ LET sent == RequestSent(FALSE, response)
           content == createOnce(response)
       IN  /\ fnResult' = fnResult \o
                  <<sent,
                    IF content.throws
                    THEN Catch(content, "request", fnArgs.locale)
                    ELSE Catch(tryParseJsonReport(content.value), "parse", fnArgs.locale)>>
           /\ pc' = "settled"
    /\ UNCHANGED <<pages, input, returned, classified, scoreResult, aiCalls, events, fnArgs>>

NextAI ==
    \/ LookUpKey
    \/ \E response \in Responses : FirstRequestSettles(response)
    \/ \E response \in Responses : RetrySettles(response)

SpecAI == InitAI /\ [][NextAI]_vars

\* The requests sent so far and the way the call settled.
RequestsSent == {i \in DOMAIN fnResult : fnResult[i].type = "request"}

Settlement == fnResult[Len(fnResult)]

\* The content of the last response, when it had one.
LastContent ==
    LET last == fnResult[Len(fnResult) - 1].response
    IN  IF last.rejects \/ last.content = <<>> THEN <<>> ELSE last.content

\* A content that carries an object with the four keys, bare or within prose.
CarriesReport(content) ==
    /\ content.kind = "object" /\ content.wrap \in {"none", "prose"}
    /\ content.value.overview_summary = "text"
    /\ content.value.overview_clinicai = "text"
    /\ content.value.overview_priorities = "array"
    /\ content.value.card_overviews = "object"

\* C19: generateAIReport never rejects: however the external call ends it
\* resolves with a report and a meta. The status is ok only when the report
\* was parsed from a response with overview_summary, overview_clinicai, an
\* overview_priorities array and card_overviews; otherwise the report is the
\* locale's fallback. Without a key no request is made and the status is
\* missing_key.
C19_AlwaysResolvesOkOnlyWhenParsed ==
    /\ \A i \in DOMAIN fnResult : fnResult[i].type # "rejected"
    /\ pc = "settled" =>
        /\ Settlement.type = "resolved"
        /\ Settlement.meta.status \in {"ok", "missing_key", "error"}
        /\ Settlement.meta.status = "ok" =>
               /\ LastContent # <<>>
               /\ CarriesReport(LastContent[1])
               /\ Settlement.report = LastContent[1].value
        /\ Settlement.meta.status # "ok" => Settlement.report = getFallbackReport(fnArgs.locale)
        /\ fnArgs.OPENAI_API_KEY = "" /\ fnArgs.NEXT_PUBLIC_OPENAI_API_KEY = "" =>
               /\ RequestsSent = {}
               /\ Settlement.meta.status = "missing_key"
        /\ Settlement.meta.status = "missing_key" => RequestsSent = {}

\* Every kind of outcome has happened: a retry after an unparsable content
\* that ended in a refusal, and the fallback returned.
C19_RetryRefused ==
    /\ pc = "settled"
    /\ Cardinality(RequestsSent) = 2
    /\ fnResult[1].response.content # <<>>
    /\ fnResult[1].response.content[1].kind = "object"
    /\ ~fnResult[2].response.rejects
    /\ fnResult[2].response.content = <<>>
    /\ fnResult[2].response.refusal # ""
    /\ Settlement.meta.status = "error"

----------------------------------------------------------------------------
(* Weighted coverage.                                                      *)

\* The checks of all categories.
AllChecks == {ChecksOf(cat)[k] : <<cat, k>> \in {ck \in CategoryNames \X (1..6) : ck[2] \in DOMAIN ChecksOf(ck[1])}}

\* Twice the weighted number of pages of a check, as scoreByCoverage and
\* weightedCoverage compute it from the counts of the context.
Weighted2(ctx, pred) ==
    weightedObserved2(Len(ctx.pages), ctx.observed[pred].observedPages,
                      ctx.observed[pred].strongObservedPages)

----------------------------------------------------------------------------
(* The minCoverage gate (under SpecCoverage).                              *)

\* The weighted coverage of the arguments is below their gate (hundredths).
BelowGate ==
    /\ fnArgs.minCoverage # <<>>
    /\ 100 * Min(2 * fnArgs.pagesAnalyzed, 2 * fnArgs.observedPages + fnArgs.strongObservedPages)
           < fnArgs.minCoverage[1] * 2 * fnArgs.pagesAnalyzed

\* The step of the coverage, in tenths: 10, 7, 4 or 0.
StepOfCoverage ==
    IF CoverageAtLeast(5) THEN 10
    ELSE IF CoverageAtLeast(3) THEN 7
    ELSE IF CoverageAtLeast(1) THEN 4
    ELSE 0

\* C22: scoreByCoverage returns 0 whenever a minCoverage gate is set and the
\* weighted coverage is below it, even where the step function alone would
\* give partial credit; otherwise it returns basePoints * coverageFactor(coverage);
\* and it returns 0 when pagesAnalyzed <= 0.
C22_GateThenStep ==
    fnResult # <<>> /\ "basePoints" \in DOMAIN fnArgs =>
        /\ fnArgs.pagesAnalyzed <= 0 => fnResult[1] = 0
        /\ fnArgs.pagesAnalyzed > 0 /\ BelowGate => fnResult[1] = 0
        /\ fnArgs.pagesAnalyzed > 0 /\ ~BelowGate =>
               fnResult[1] = fnArgs.basePoints * StepOfCoverage

\* Gate 0.5 with coverage 0.3: the step alone would give 0.7 of the base
\* points, the gate gives 0.
C22_GatedPartialCredit ==
    /\ fnResult # <<>> /\ fnArgs.minCoverage = <<50>>
    /\ fnArgs.pagesAnalyzed = 10 /\ fnArgs.observedPages = 3 /\ fnArgs.strongObservedPages = 0
    /\ StepOfCoverage = 7
    /\ fnResult[1] = 0

----------------------------------------------------------------------------
(* details.checks: pickFourChecks on the candidates of calculateScore and   *)
(* on candidate lists of every length.                                     *)

MaxCandidates == 5

\* The lists of n candidates with distinct keys.
CandidateListsOfLength(n) ==
    { [i \in 1..n |->
          [key |-> CandidateKeys[i], label |-> CandidateKeys[i], ok |-> f[i].ok,
           weight |-> f[i].weight, coverage |-> f[i].coverage]] :
      f \in [1..n -> CandidateAttributes] }

InitChecks ==
    \/ Init
    \/ /\ NoRequest /\ fnResult = <<>>
       /\ \E n \in 0..Min(MaxCandidates, Len(CandidateKeys)) :
              fnArgs \in CandidateListsOfLength(n)

\* calculateScore on a request, pickFourChecks where no request is in flight.
NextChecks ==
    \/ input # <<>> /\ \E p \in PagePool : AddPage(p)
    \/ input # <<>> /\ CallCalculateScore
    \/ input = <<>> /\ CallPickFourChecks

SpecChecks == InitChecks /\ [][NextChecks]_vars

\* Pairwise distinct keys.
DistinctKeys(items) == \A m, n \in DOMAIN items : m # n => items[m].key # items[n].key

\* The position in fnArgs of the candidate an item was made from.
CandidateOf(item) == CHOOSE i \in DOMAIN fnArgs : fnArgs[i].key = item.key

\* The failing (or passing) items are the candidates that come first: no
\* candidate left out comes before a chosen one, and they keep their order.
FirstInOrder(items, failing) ==
    LET at == {m \in DOMAIN items : items[m].ok = ~failing}
        chosen == {CandidateOf(items[m]) : m \in at}
    IN  /\ \A e \in WithOk(~failing) \ chosen : \A i \in chosen : ~ComesBefore(e, i, failing)
        /\ \A m, n \in at :
               m < n => ~ComesBefore(CandidateOf(items[n]), CandidateOf(items[m]), failing)

\* C23: for every non-empty page list details.checks holds, for each of the
\* five categories, exactly 4 items with pairwise distinct keys; in general
\* pickFourChecks on n candidates with distinct keys returns min(4, n) items
\* without repeating a key: up to two failing, up to two passing, then the
\* backfill from the remaining failing and the remaining passing candidates.
C23_FourDistinctChecks ==
    /\ returned # <<>> /\ pages # <<>> =>
           \A cat \in CategoryNames :
               /\ Len(returned[1].details.checks[cat]) = 4
               /\ DistinctKeys(returned[1].details.checks[cat])
    /\ fnResult # <<>> /\ input = <<>> =>
           LET out == fnResult[1]
               F == Cardinality(WithOk(FALSE))
               P == Cardinality(WithOk(TRUE))
           IN  /\ Len(out) = Min(4, Len(fnArgs))
               /\ DistinctKeys(out)
               /\ \A m \in DOMAIN out :
                      /\ \E i \in DOMAIN fnArgs :
                             out[m] = [key |-> fnArgs[i].key, ok |-> fnArgs[i].ok,
                                       label |-> fnArgs[i].label]
                      /\ out[m].ok <=> \/ Min(F, 2) < m /\ m <= Min(F, 2) + Min(P, 2)
                                       \/ Min(F, 2) + Min(P, 2) < m /\ F <= 2
               /\ FirstInOrder(out, TRUE)
               /\ FirstInOrder(out, FALSE)

\* The backfill has acted within calculateScore: the four trust candidates
\* of a scored site are two failing checks, the passing one, and the third
\* failing check from the backfill.
C23_BackfilledResult ==
    /\ returned # <<>> /\ pages # <<>>
    /\ Cardinality({m \in 1..4 : ~returned[1].details.checks["trust"][m].ok}) = 3
    /\ returned[1].details.checks["trust"][3].ok
    /\ ~returned[1].details.checks["trust"][4].ok

----------------------------------------------------------------------------
(* Tokens of details.signals (under Spec).                                 *)

\* The tokens the checks can push, in the order the checks are evaluated.
RECURSIVE TokensOfChecks(_)
TokensOfChecks(checks) ==
    IF checks = <<>> THEN <<>>
    ELSE [k \in DOMAIN Head(checks).signals |-> <<Head(checks).signals[k]>>]
             \o TokensOfChecks(Tail(checks))

CheckTokens ==
    TokensOfChecks(ChecksOf("relevance")) \o TokensOfChecks(ChecksOf("structure"))
        \o TokensOfChecks(ChecksOf("indexing")) \o TokensOfChecks(ChecksOf("trust"))
        \o TokensOfChecks(ChecksOf("faq_schema"))

\* The tokens pushed after the caps block.
ClosingTokens == << <<"cap_guard_faq_schema_ok">>, <<"schema_medical_present">>, <<"sitemap_present">> >>

EvaluationOrder == CheckTokens \o ClosingTokens

\* The tokens of the code whose name mentions a cap.
CapTokens == { <<"cap_guard_faq_schema_ok">> }

\* C24: whenever calculateScore applies a cap (sets indexingCap, trustCap or
\* totalCap), a token recording that cap application is appended to
\* details.signals, and all tokens appear in the order in which the checks
\* were evaluated.
C24_CapApplicationRecorded ==
    returned # <<>> /\ pages # <<>> =>
        LET signals == returned[1].details.signals
        IN  /\ DOMAIN returned[1].details.caps # {} =>
                   \E i \in DOMAIN signals : signals[i] \in CapTokens
            /\ \A m, n \in 5..Len(signals) :
                   m < n =>
                       \E i, j \in DOMAIN EvaluationOrder :
                           /\ i < j
                           /\ EvaluationOrder[i] = signals[m]
                           /\ EvaluationOrder[j] = signals[n]

\* The tokens do appear in evaluation order, cap or no cap.
SignalsInEvaluationOrder ==
    returned # <<>> /\ pages # <<>> =>
        \A m, n \in 5..Len(returned[1].details.signals) :
            m < n =>
                \E i, j \in DOMAIN EvaluationOrder :
                    /\ i < j
                    /\ EvaluationOrder[i] = returned[1].details.signals[m]
                    /\ EvaluationOrder[j] = returned[1].details.signals[n]

----------------------------------------------------------------------------
(* The retry of generateAIReport (under SpecAI).                           *)

\* The first response came back with no content and no refusal.
FirstContentEmpty ==
    /\ fnResult # <<>> /\ fnResult[1].type = "request"
    /\ ~fnResult[1].response.rejects
    /\ fnResult[1].response.content = <<>>
    /\ fnResult[1].response.refusal = ""

\* C25: if the first, JSON-mode request returns empty content,
\* generateAIReport retries once without response_format before falling
\* back; in every case at most two external requests are made.
C25_EmptyContentRetried ==
    /\ Cardinality(RequestsSent) <= 2
    /\ pc = "settled" /\ FirstContentEmpty =>
           /\ Cardinality(RequestsSent) = 2
           /\ fnResult[1].useResponseFormat
           /\ ~fnResult[2].useResponseFormat

\* At most two requests, the first in JSON mode and the second without.
AtMostTwoRequests ==
    /\ Cardinality(RequestsSent) <= 2
    /\ \A i \in RequestsSent : i <= 2 /\ (fnResult[i].useResponseFormat <=> i = 1)

\* The retry is made exactly after a content that does not parse.
RetryOnlyAfterUnparsableContent ==
    Cardinality(RequestsSent) = 2 <=>
        /\ pc \in {"createOnce(false)", "settled"} /\ Len(fnResult) >= 2
        /\ fnResult[2].type = "request"
        /\ fnResult[1].response.content # <<>>
        /\ tryParseJsonReport(fnResult[1].response.content[1]).throws

----------------------------------------------------------------------------
(* The order of the stream's events (under SpecPost).                      *)

IsTerminal(e) == e.type \in {"complete", "error"}

\* The steps a stream goes through, as far as they go: progress 10, 50, 70,
\* 90 and complete.
StepOfEvent(e) ==
    IF e.type = "complete" THEN 100 ELSE IF e.type = "progress" THEN e.value ELSE -1

FullStream == <<10, 50, 70, 90, 100>>

\* The events before position n are the first steps of the full stream.
FirstSteps(n) ==
    /\ n - 1 <= Len(FullStream)
    /\ \A i \in 1..(n - 1) : StepOfEvent(events[i]) = FullStream[i]

\* What holds of every stream once its first event is settled: the steps in
\* order, progress 50 only with pages, one terminal event, closed right
\* after it, an error and no complete event for an empty crawl.
OrderedAndTerminated ==
    /\ \A i \in DOMAIN events : IsTerminal(events[i]) => i = Len(events)
    /\ FirstSteps(IF events # <<>> /\ events[Len(events)].type = "error"
                  THEN Len(events) ELSE Len(events) + 1)
    /\ (\E i \in DOMAIN events : StepOfEvent(events[i]) = 50) => Len(pages) >= 1
    /\ pc = "closed" <=> (events # <<>> /\ IsTerminal(events[Len(events)]))
    /\ pc = "closed" /\ pages = <<>> => events[Len(events)].type = "error"

\* C26 as amended: the events of every request are ordered. Progress 10 comes
\* first once the request body has been read; a request whose body cannot be
\* read yields the error event alone. Then, only if the crawl returned at
\* least one page, progress 50, 70, 90 and complete follow in that order; the
\* stream carries exactly one terminal event, is closed right after it and
\* no event follows it; an empty crawl or any thrown error yields the error
\* event and no complete event.
C26_OrderedAfterBodyRead ==
    /\ OrderedAndTerminated
    /\ events # <<>> =>
           \/ events[1] = Progress(10, "Crawling")
           \/ events = <<ErrorEvent("Analysis failed")>> /\ pages = <<>>

\* C26: for every request the stream's events are ordered: progress 10
\* first; then, only if the crawl returned at least one page, progress 50,
\* 70, 90 and complete, in that order with strictly increasing values; exactly
\* one terminal event, the stream closed right after it; an empty crawl or
\* any thrown error yields the error event and no complete event.
C26_OrderedFromProgress10 ==
    /\ OrderedAndTerminated
    /\ events # <<>> => events[1] = Progress(10, "Crawling")

\* A stream that went all the way: five events ending in complete, closed.
C26_FullStreamClosed ==
    /\ pc = "closed" /\ Len(events) = 5
    /\ events[5].type = "complete"
    /\ aiCalls # <<>>

----------------------------------------------------------------------------
(* calculateScore applied to crawls of thin pages: every body under 400    *)
(* characters.                                                             *)

\* A landing page with every signal of every category but a body of 399
\* characters; it links to the sitemap.
ThinLanding ==
    Page("/", Short({"miso-uiwon", "impeullanteu"}, 16, 1), Short({}, 40, 0),
         << {"impeullanteu"} >>, << {"wonin"}, {"jeungsang"}, {"chiryo"} >>,
         Text({"impeullanteu", "wonin", "jeungsang", "chiryo", "bujagyong", "jeonmunui",
               "jeonhwa", "02-555-0100"}, {"impeullanteu"}, 399, 50),
         {"canonical", "viewport", "og"}, <<"FAQPage", "MedicalClinic">>,
         <<"/about", "/doctors", "/impeullanteu", "/faq", "/contact", "/sitemap.xml">>, 5)

\* The same landing page without the sitemap link.
ThinLandingNoSitemap == [ThinLanding EXCEPT !.internalLinks = <<"/about", "/doctors">>]

\* The sitemap itself, crawled as a page: nothing but its URL.
ThinSitemap == [BlankPage EXCEPT !.url = "/sitemap.xml"]

ThinPool == <<BlankPage, ContactKo, ThinLandingNoSitemap, ThinLanding, ThinSitemap>>

\* The crawl returns one more thin page; pages are grouped by kind
\* (calculateScore does not read a page's position).
AddThinPage(k) ==
    /\ returned = <<>>
    /\ Len(pages) < CrawlLimit
    /\ pages # <<>> => \E j \in 1..k : ThinPool[j] = pages[Len(pages)]
    /\ pages' = Append(pages, ThinPool[k])
    /\ UNCHANGED <<input, returned, classified, pc, scoreResult, aiCalls, events, fnArgs, fnResult>>

NextThin ==
    \/ \E k \in DOMAIN ThinPool : AddThinPage(k)
    \/ CallCalculateScore

SpecThin == Init /\ [][NextThin]_vars

\* Every normalized body text is shorter than 400 characters.
NoValidPage == \A i \in DOMAIN pages : pages[i].bodyText.chars < 400

\* C27: if no analyzed page is valid (every normalized body text is shorter
\* than 400 characters), calculateScore returns relevance = structure =
\* trust = faq_schema = 0; only indexing can be non-zero, through the sitemap
\* proxy that is computed over all pages, and the total is at most 3.
C27_ThinSiteScoresSitemapOnly ==
    returned # <<>> /\ NoValidPage =>
        /\ returned[1].categories.relevance = 0
        /\ returned[1].categories.structure = 0
        /\ returned[1].categories.trust = 0
        /\ returned[1].categories.faq_schema = 0
        /\ returned[1].categories.indexing <= 3
        /\ returned[1].categories.indexing > 0 => hasSitemapProxy(pages)
        /\ returned[1].total = returned[1].categories.indexing
        /\ returned[1].total <= 3

\* A crawl of thin pages with a sitemap link scored 3, all of it indexing.
C27_ThinSiteWithSitemap ==
    /\ returned # <<>> /\ NoValidPage /\ pages # <<>>
    /\ \E i \in DOMAIN pages : pages[i] = ThinLanding
    /\ returned[1].categories.indexing = 3
    /\ returned[1].total = 3

----------------------------------------------------------------------------
(* The category caps against the raw scores (under Spec).                  *)

\* No cap at all.
NoCaps == [k \in {} |-> 14]

\* The category comes out of the caps block and of the re-applied cap as it
\* would with no cap set.
CapIsNoOp(ctx, cat, caps) ==
    /\ CappedRaw(ctx, cat, caps) = RawCategory(ctx, cat)
    /\ ScaledCategory(ctx, cat, caps) = ScaledCategory(ctx, cat, NoCaps)

\* C28: the two category caps never change a score: in every run where
\* indexingCap is set the raw indexing score before capping is at most 9, and
\* in every run where trustCap is set the raw trust score before capping is
\* at most 13, so the clamps to 14 (before and after confidence scaling) are
\* no-ops.
C28_CategoryCapsAreNoOps ==
    returned # <<>> /\ pages # <<>> =>
        \A ctx \in {Context(pages, input)} :
            \A caps \in {CapsOf(ctx)} :
                /\ returned[1].details.caps = caps
                /\ "indexingCap" \in DOMAIN caps =>
                       /\ RawCategory(ctx, "indexing") <= 90
                       /\ CapIsNoOp(ctx, "indexing", caps)
                /\ "trustCap" \in DOMAIN caps =>
                       /\ RawCategory(ctx, "trust") <= 130
                       /\ CapIsNoOp(ctx, "trust", caps)

\* Both caps set on a site whose raw indexing score is the full 9 points
\* that remain without canonical tag and sitemap.
C28_CappedAtNinePoints ==
    /\ returned # <<>> /\ pages # <<>>
    /\ {"indexingCap", "trustCap"} \subseteq DOMAIN returned[1].details.caps
    /\ RawCategory(Context(pages, input), "indexing") = 90

----------------------------------------------------------------------------
(* classifySite on sites without medical vocabulary (under SpecListing).   *)

\* A listing page of a doctors' directory: Physician structured data and
\* the structural words for directions, inquiry and telephone, but no
\* medical keyword.
DirectoryKo ==
    Page("/directory", Short({"osineungil"}, 8, 0), Short({}, 20, 0),
         << {"munui"} >>, <<>>,
         Text({"osineungil", "munui", "jeonhwa", "02-555-0100"}, {"osineungil"}, 480, 10),
         {"canonical", "viewport"}, <<"Physician">>, <<"/", "/map">>, 0)

\* A directions page: structural words only, no structured data.
MapKo ==
    Page("/map", Short({"osineungil"}, 8, 0), EmptyText, << {"osineungil"} >>, <<>>,
         Text({"osineungil", "jeonhwa"}, {}, 360, 4), {"viewport"}, <<>>, <<"/">>, 0)

ListingPool == {DirectoryKo, MapKo, HomeKo, ShopKo, RecruitKo, BlankPage}

NextListing ==
    \/ \E p \in ListingPool : AddSitePage(p)
    \/ CallClassifySite

SpecListing == Init /\ [][NextListing]_vars

\* C29: classifySite returns level "yes" only if at least one
\* classification-valid page contains a medical keyword: with
\* medical-keyword coverage 0 the evidence score is at most 5 (structural 2 +
\* schema 3), whatever the schema types and structural keywords.
C29_YesNeedsMedicalKeyword ==
    classified # <<>> =>
        /\ Coverage(medicalKeywords(input.locale)) = 0 =>
               /\ classified[1].evidenceScore <= 5
               /\ classified[1].level # "yes"
               /\ ~classified[1].isHospital
        /\ classified[1].level = "yes" =>
               \E i \in ValidForClassification :
                   containsAny(combinedText(pages[i]), medicalKeywords(input.locale))

\* Three structural pages and a medical schema type without any medical
\* keyword: the score is 5 and the level "uncertain".
C29_FivePointsWithoutMedicalKeyword ==
    /\ classified # <<>>
    /\ Coverage(medicalKeywords(input.locale)) = 0
    /\ Coverage(structureKeywords(input.locale)) >= 3
    /\ MedicalSchemaSignal
    /\ classified[1].evidenceScore = 5
    /\ classified[1].level = "uncertain"

----------------------------------------------------------------------------
(* The loading page: LoadingContent's effect, its POST, its polling        *)
(* interval and its cleanup (under SpecLoading).                           *)
(*                                                                         *)
(* pc is the component's life cycle ("mounted", "unmounted"); fnResult is  *)
(* the list of the effect's runs, one closure per run:                     *)
(*   stage      where startAnalysis stands: "fetch" (POST pending), "json" *)
(*              or "errorJson" (body pending), "polling", "caught"         *)
(*   intervalId the closure's intervalId, 0 for undefined                  *)
(*   active     whether the interval it set is still in the timer table    *)
(*   cleanedIn  the stage in which the cleanup ran, "" if it has not       *)
(*   inFlight   the status requests awaiting their response                *)
(*   terminal   whether a poll reported completed or failed, or errored    *)

\* The effect runs the dependencies can cause while the page is mounted.
MaxEffects == 2

\* The status requests one interval has awaiting a response at a time.
MaxInFlight == 2

\* let jobId = ''; let intervalId = undefined; startAnalysis()
NewEffect ==
    [ stage |-> "fetch", intervalId |-> 0, active |-> FALSE, cleanedIn |-> "",
      inFlight |-> 0, terminal |-> FALSE ]

InitLoading ==
    /\ pages = <<>> /\ input = <<>> /\ returned = <<>> /\ classified = <<>>
    /\ scoreResult = <<>> /\ aiCalls = <<>> /\ events = <<>>
    /\ pc = "mounted"
    /\ fnArgs = <<>>
    /\ fnResult = <<NewEffect>>

\* if (intervalId) clearInterval(intervalId)
ClearIfSet(e) == IF e.intervalId # 0 THEN [e EXCEPT !.active = FALSE] ELSE e

\* The function the effect returns.
Cleanup(e) == ClearIfSet([e EXCEPT !.cleanedIn = e.stage])

PostOutcomes == {"ok", "notOk", "rejected"}

\* await fetch('/api/analyze', ...) settles.
PostResponds(i, outcome) ==
    /\ fnResult[i].stage = "fetch"
    /\ fnResult' = [fnResult EXCEPT ![i].stage =
                        CASE outcome = "ok" -> "json"
                          [] outcome = "notOk" -> "errorJson"
                          [] OTHER -> "caught"]
    /\ UNCHANGED <<pages, input, returned, classified, pc, scoreResult, aiCalls, events, fnArgs>>

\* await res.json() settles: of an error response, the throw is caught; of
\* an ok response, jobId is set and pollStatus() sets the interval.
BodyRead(i, rejects) ==
    /\ fnResult[i].stage \in {"json", "errorJson"}
    /\ fnResult' = [fnResult EXCEPT ![i] =
                        IF fnResult[i].stage = "json" /\ ~rejects
                        THEN [@ EXCEPT !.stage = "polling", !.intervalId = i, !.active = TRUE]
                        ELSE [@ EXCEPT !.stage = "caught"]]
    /\ UNCHANGED <<pages, input, returned, classified, pc, scoreResult, aiCalls, events, fnArgs>>

\* The interval fires: fetch(`/api/status?id=${jobId}`) is sent.
Tick(i) ==
    /\ fnResult[i].active
    /\ fnResult[i].inFlight < MaxInFlight
    /\ fnResult' = [fnResult EXCEPT ![i].inFlight = @ + 1]
    /\ UNCHANGED <<pages, input, returned, classified, pc, scoreResult, aiCalls, events, fnArgs>>

PollOutcomes == {"processing", "completed", "failed", "error"}

\* A status request settles: the job's status, or an error (a rejection, a
\* response that is not ok, a body that does not parse).
PollSettles(i, outcome) ==
    /\ fnResult[i].inFlight > 0
    /\ fnResult' = [fnResult EXCEPT ![i] =
                        IF outcome = "processing"
                        THEN [@ EXCEPT !.inFlight = @ - 1]
                        ELSE ClearIfSet([@ EXCEPT !.inFlight = @ - 1, !.terminal = TRUE])]
    /\ UNCHANGED <<pages, input, returned, classified, pc, scoreResult, aiCalls, events, fnArgs>>

\* The component unmounts: the cleanup of the last effect run.
Unmount ==
    /\ pc = "mounted"
    /\ pc' = "unmounted"
    /\ fnResult' = [fnResult EXCEPT ![Len(fnResult)] = Cleanup(@)]
    /\ UNCHANGED <<pages, input, returned, classified, scoreResult, aiCalls, events, fnArgs>>

\* searchParams, router or locale changed: the cleanup of the last effect
\* run, then the effect again.
DependenciesChange ==
    /\ pc = "mounted"
    /\ Len(fnResult) < MaxEffects
    /\ fnResult' = Append([fnResult EXCEPT ![Len(fnResult)] = Cleanup(@)], NewEffect)
    /\ UNCHANGED <<pages, input, returned, classified, pc, scoreResult, aiCalls, events, fnArgs>>

NextLoading ==
    \/ \E i \in DOMAIN fnResult : \E outcome \in PostOutcomes : PostResponds(i, outcome)
    \/ \E i \in DOMAIN fnResult : \E rejects \in BOOLEAN : BodyRead(i, rejects)
    \/ \E i \in DOMAIN fnResult : Tick(i)
    \/ \E i \in DOMAIN fnResult : \E outcome \in PollOutcomes : PollSettles(i, outcome)
    \/ Unmount
    \/ DependenciesChange

SpecLoading == InitLoading /\ [][NextLoading]_vars

\* C30: once the effect cleanup has run (component unmounted or
\* dependencies changed) no status-polling interval of that effect remains
\* active, under every interleaving of the cleanup with the still-pending
\* POST /api/analyze response that starts the polling; and polling stops
\* after the first poll that reports status completed or failed or that
\* errors.
C30_NoIntervalAfterCleanup ==
    \A i \in DOMAIN fnResult :
        /\ fnResult[i].cleanedIn # "" => ~fnResult[i].active
        /\ fnResult[i].terminal => ~fnResult[i].active

\* A cleanup that runs once the interval is set clears it.
CleanupAfterPollStatusClears ==
    \A i \in DOMAIN fnResult : fnResult[i].cleanedIn = "polling" => ~fnResult[i].active

\* After a poll that reported completed or failed or that errored, the
\* interval is cleared.
PollingStopsAfterTerminalPoll ==
    \A i \in DOMAIN fnResult : fnResult[i].terminal => ~fnResult[i].active

\* An interval is active after the cleanup only if the cleanup ran while
\* the POST or its body was pending.
LeakOnlyWhilePostPending ==
    \A i \in DOMAIN fnResult :
        fnResult[i].cleanedIn # "" /\ fnResult[i].active =>
            fnResult[i].cleanedIn \in {"fetch", "json"}

====
